---------------------------- MODULE Spec2Model ----------------------------
(***************************************************************************)
(* A model of the dewatermark automation pipeline:                         *)
(*   - VPNManager        (src/core/downloader.py, lines 19-290)            *)
(*   - ImageProcessor    (src/core/downloader.py, lines 292-1313)          *)
(*   - Dewatermarker     (src/core/dewatermarker.py, process_images)       *)
(* The external VPN client and the target web page are the environment:    *)
(* every external command and every awaited browser call has a             *)
(* nondeterministic outcome.                                               *)
(***************************************************************************)
EXTENDS Integers, Sequences, FiniteSets, TLC

(***************************************************************************)
(* Program constants.                                                      *)
(***************************************************************************)
\* VPNManager.LOCATIONS (downloader.py:24)
LOCATIONS == <<"US", "CA", "UK", "DE", "FR", "NL", "CH", "SE", "NO", "IT">>

\* VPNManager.max_consecutive_failures (downloader.py:31)
max_consecutive_failures == 3

\* default of rotate_ip's max_retries parameter (downloader.py:143)
DefaultMaxRetries == 3

(***************************************************************************)
(* Bounds of the model.                                                    *)
(***************************************************************************)
\* external-command failures the environment may inject into one call made
\* by the VPNManager test driver (SpecVPN)
MaxCallFaults == 2

\* the two VPNManager instances of the program: Dewatermarker.vpn_manager
\* (dewatermarker.py:31) and the class attribute ImageProcessor.vpn_manager
\* (downloader.py:295)
Mgrs == {"dw", "ip"}

\* no explicit location (location=None)
NoLocation == ""

VARIABLES
    vpnEnv,     \* the VPN client of the machine: "ok", "down" (installed, every
                \* command fails) or "absent" (binary not installed)
    client,     \* what the VPN client really is: "connected" / "disconnected"
    vfaults,    \* failures the environment may still inject into VPN commands
    vm,         \* the VPNManager objects: connected, current_location_index,
                \* rotation_attempts, and fails, the number of rotate_ip calls
                \* that returned False since the last one that returned True
    pc,         \* position of the (single) thread of control
    rot,        \* the frame of the rotate_ip call in progress (or last finished)
    request_count,  \* ImageProcessor.request_count (class attribute)
    rcLast,     \* the statement that last assigned request_count
    batch,      \* Dewatermarker.process_images: its loop and what it collected
    proc,       \* the ImageProcessor of the current image and its process_image call
    sess,       \* the browser session of the current attempt
    mr,         \* the frame of the _maybe_rotate_ip call in progress
    exc,        \* the exception in flight
    result,     \* what process_image returned
    sfaults,    \* failures the environment may still inject into the browser session
    dailyPending,   \* a daily limit was detected and no rotate_ip call followed yet
    site,       \* the network between the browser and the site: "ok" or
                \* "offline" (every navigation fails)
    call,       \* the last call of a leaf method by the VPNManager driver: the
                \* outcomes of its commands and what it returned
    tasks       \* the process_image coroutines of the event loop: which one
                \* is running and where each one is

vpnVars == <<vpnEnv, site, call, client, vfaults, vm, rot>>

procVars == <<request_count, rcLast, proc, sess, mr, exc, result, sfaults>>

(***************************************************************************)
(* The environment: outcomes of external commands.                         *)
(*   "ok"  : exit code 0                                                   *)
(*   "err" : non-zero exit code                                            *)
(*   "exc" : subprocess.run raised (binary missing, timeout)               *)
(***************************************************************************)
CmdOutcomes == {"ok", "err", "exc"}

\* the outcomes a command can have in environment env with budget f
Possible(env, f) ==
    CASE env = "absent" -> {"exc"}
      [] env = "down"   -> {"err"}
      [] OTHER          -> IF f > 0 THEN CmdOutcomes ELSE {"ok"}

\* what an outcome costs of the fault budget
Cost(env, o) == IF env = "ok" /\ o # "ok" THEN 1 ELSE 0

\* the outcome written down for a command that a step does not run
Pinned(env) == CHOOSE o \in Possible(env, 0) : TRUE

(***************************************************************************)
(* VPNManager leaf methods, as functions of the manager's fields m, the    *)
(* client's state cl and the outcome of the command they run.  Each        *)
(* returns the new fields, the new client state, the returned value and    *)
(* the commands issued; raised tells that the method was left by an        *)
(* exception instead of a return, which the handlers of lines 61, 94, 139, *)
(* 259 and 288 allow for no outcome.                                       *)
(***************************************************************************)
Res(m, cl, ret, nd, nc) ==
    [m |-> m, client |-> cl, ret |-> ret, nDisc |-> nd, nConn |-> nc,
     raised |-> FALSE]

\* a status query that leaves the flag as it is
StatusFlagKept(m, cl) == m.connected

\* verify_connection_status's exit-code-0 branch sets the flag from the output
StatusFlagOnOk(m, cl) == cl = "connected"

\* verify_connection_status's failure branches (non-zero exit, exception)
StatusFlagOnFail(m) == m.connected

\* VPNManager.verify_connection_status
verify_connection_status(m, cl, o) ==
    IF o = "ok"
    THEN Res([m EXCEPT !.connected = StatusFlagOnOk(m, cl)], cl,
             cl = "connected", 0, 0)
    ELSE Res([m EXCEPT !.connected = StatusFlagOnFail(m)], cl, FALSE, 0, 0)

\* a disconnect without the handler of lines 61-63: what subprocess.run
\* raises leaves the method
disconnect_uncaught(m, cl, o) ==
    CASE o = "ok"  -> Res([m EXCEPT !.connected = FALSE], "disconnected", TRUE, 1, 0)
      [] o = "exc" -> [Res(m, cl, FALSE, 1, 0) EXCEPT !.raised = TRUE]
      [] OTHER     -> Res(m, cl, FALSE, 1, 0)

\* VPNManager.disconnect
disconnect(m, cl, o) ==
    IF o = "ok"
    THEN Res([m EXCEPT !.connected = FALSE], "disconnected", TRUE, 1, 0)
    ELSE Res(m, cl, FALSE, 1, 0)

\* VPNManager._force_disconnect ("windscribe-cli disconnect")
force_disconnect(m, cl, o) ==
    IF o = "ok"
    THEN Res([m EXCEPT !.connected = FALSE], "disconnected", TRUE, 1, 0)
    ELSE Res(m, cl, FALSE, 1, 0)

\* VPNManager.get_next_location: the location returned
NextLocation(m) == LOCATIONS[m.idx + 1]

\* an index that wraps one entry early
AdvanceShort(m) == (m.idx + 1) % (Len(LOCATIONS) - 1)

\* VPNManager.get_next_location: the index left behind
AdvanceIndex(m) == (m.idx + 1) % Len(LOCATIONS)

\* a connect that trusts the exit code of the connect command
connect_unverified(m, cl, location, od, oc, os) ==
    LET d  == IF m.connected THEN disconnect(m, cl, od) ELSE Res(m, cl, TRUE, 0, 0)
        c  == IF oc = "ok" THEN "connected" ELSE d.client
    IN  Res(d.m, c, oc = "ok", d.nDisc, 1)

\* VPNManager.connect(location): od, oc, os are the outcomes of the
\* disconnect, connect and status commands it may run
connect(m, cl, location, od, oc, os) ==
    LET d  == IF m.connected THEN disconnect(m, cl, od) ELSE Res(m, cl, TRUE, 0, 0)
        c  == IF oc = "ok" THEN "connected" ELSE d.client
        v  == verify_connection_status(d.m, c, os)
    IN  IF oc = "ok"
        THEN Res(v.m, c, v.ret, d.nDisc, 1)
        ELSE Res(d.m, c, FALSE, d.nDisc, 1)

\* VPNManager._restart_windscribe_service: logout, disconnect, killall, login
\* (the client is down once killall ran); an exception of the first command
\* ends it
restart_windscribe_service(m, cl, o) ==
    IF o = "exc"
    THEN Res(m, cl, FALSE, 0, 0)
    ELSE Res(m, "disconnected", TRUE, 1, 0)

(***************************************************************************)
(* rotate_ip, step by step.  rot is its frame.                             *)
(***************************************************************************)
NoRot ==
    [mgr |-> "dw", ret |-> "none", location |-> NoLocation, force |-> FALSE,
     force0 |-> FALSE, max_retries |-> 0, force_reconnect |-> FALSE,
     retry_count |-> 0, result |-> FALSE, restarted |-> FALSE,
     disc |-> FALSE, nLoc |-> 0, nAuto |-> 0,
     upAtEntry |-> FALSE, clean |-> TRUE]

\* the frame of a new call rotate_ip(location, force, max_retries,
\* force_reconnect) on manager mgr, returning to ret
RotFrame(mgr, ret, location, force, maxr, fr, cl) ==
    [NoRot EXCEPT !.mgr = mgr, !.ret = ret, !.location = location,
                  !.force = force, !.force0 = force, !.max_retries = maxr,
                  !.force_reconnect = fr,
                  !.upAtEntry = (cl = "connected")]

\* a restart one call late
NeedsRestartLate(attempts, fr) == attempts > max_consecutive_failures \/ fr

\* the restart condition of rotate_ip (downloader.py:160)
NeedsRestart(attempts, fr) == attempts >= max_consecutive_failures \/ fr

\* what a successful no-op return leaves in rotation_attempts (downloader.py:171-173)
AttemptsAfterNoop(attempts) == attempts

\* what a successful rotation leaves in rotation_attempts (downloader.py:209, 239)
AttemptsAfterSuccess(attempts) == 0

\* the bookkeeping of a step that ran commands: r is a Res, ok tells whether
\* every command of the step exited with code 0
Account(f, r, ok) ==
    [f EXCEPT !.disc = @ \/ r.nDisc > 0, !.clean = @ /\ ok]

\* the consecutive failed rotations after one more, counted up to the
\* restart threshold
FailsAfterFailure(n) ==
    IF n < max_consecutive_failures THEN n + 1 ELSE n

\* the number of rotate_ip calls since the last session ended, as far as the
\* claims need it: 0, 1 or "2 or more"
RotCalls(n) == IF n < 2 THEN n + 1 ELSE n

\* downloader.py:156-168: count the attempt, restart the service if due
RotEntry ==
    /\ pc = "rot_entry"
    /\ LET m0 == vm[rot.mgr]
           m1 == [m0 EXCEPT !.attempts = @ + 1]
       IN IF NeedsRestart(m1.attempts, rot.force_reconnect)
          THEN \E o1 \in Possible(vpnEnv, vfaults) :
               \E o2 \in Possible(vpnEnv, vfaults - Cost(vpnEnv, o1)) :
                  LET r1 == restart_windscribe_service(m1, client, o1)
                      m2 == [r1.m EXCEPT !.attempts = 0]
                      r2 == disconnect(m2, r1.client, o2)
                      c  == Cost(vpnEnv, o1) + Cost(vpnEnv, o2)
                  IN /\ vm' = [vm EXCEPT ![rot.mgr] = r2.m]
                     /\ client' = r2.client
                     /\ vfaults' = vfaults - c
                     /\ rot' = [Account(Account(rot, r1, o1 = "ok"), r2, o2 = "ok")
                                  EXCEPT !.force = TRUE, !.restarted = TRUE]
          ELSE /\ vm' = [vm EXCEPT ![rot.mgr] = m1]
               /\ UNCHANGED <<client, vfaults>>
               /\ rot' = rot
    /\ pc' = "rot_check"
    /\ dailyPending' = FALSE
    /\ tasks' = tasks
    /\ batch' = [batch EXCEPT !.rotSince = RotCalls(@)]
    /\ UNCHANGED <<vpnEnv, site, call, procVars>>

\* downloader.py:170-178: the no-op return, else the choice of the location
RotCheck ==
    /\ pc = "rot_check"
    /\ IF ~rot.force
       THEN \E o \in Possible(vpnEnv, vfaults) :
              LET r == verify_connection_status(vm[rot.mgr], client, o)
                  c == Cost(vpnEnv, o)
              IN /\ vfaults' = vfaults - c
                 /\ client' = r.client
                 /\ IF r.ret
                    THEN /\ vm' = [vm EXCEPT ![rot.mgr] =
                                     [r.m EXCEPT !.attempts = AttemptsAfterNoop(@),
                                                 !.fails = 0]]
                         /\ rot' = [Account(rot, r, o = "ok") EXCEPT !.result = TRUE]
                         /\ pc' = "rot_ret"
                    ELSE /\ vm' = [vm EXCEPT ![rot.mgr] = r.m]
                         /\ rot' = Account(rot, r, o = "ok")
                         /\ pc' = "rot_loc"
       ELSE /\ pc' = "rot_loc"
            /\ UNCHANGED <<vm, client, vfaults, rot>>
    /\ UNCHANGED <<vpnEnv, site, call, procVars, batch, dailyPending, tasks>>

\* downloader.py:175-182
RotPickLocation ==
    /\ pc = "rot_loc"
    /\ IF rot.location = NoLocation
       THEN /\ rot' = [rot EXCEPT !.location = NextLocation(vm[rot.mgr]),
                                  !.retry_count = 0]
            /\ vm' = [vm EXCEPT ![rot.mgr].idx = AdvanceIndex(vm[rot.mgr])]
       ELSE /\ rot' = [rot EXCEPT !.retry_count = 0]
            /\ vm' = vm
    /\ pc' = "rot_loop"
    /\ UNCHANGED <<vpnEnv, site, call, client, vfaults, procVars, batch, dailyPending, tasks>>

\* a loop that allows one retry more
OneRetryMore(retry_count, maxr) == retry_count <= maxr + 1

\* the loop condition of rotate_ip (downloader.py:184)
RotLoopContinues(retry_count, maxr) == retry_count <= maxr

\* downloader.py:184-196: the loop head and the disconnect of one iteration
RotLoopDisconnect ==
    /\ pc = "rot_loop"
    /\ IF RotLoopContinues(rot.retry_count, rot.max_retries)
       THEN \E os \in Possible(vpnEnv, vfaults) :
            \E od \in Possible(vpnEnv, vfaults - Cost(vpnEnv, os)) :
            \E ofd \in Possible(vpnEnv, vfaults - Cost(vpnEnv, os) - Cost(vpnEnv, od)) :
              LET m0 == vm[rot.mgr]
                  \* self.connected or not self.verify_connection_status()
                  v  == IF m0.connected THEN Res(m0, client, FALSE, 0, 0)
                        ELSE verify_connection_status(m0, client, os)
                  doDisc == m0.connected \/ ~v.ret
                  d  == IF doDisc THEN disconnect(v.m, v.client, od)
                        ELSE Res(v.m, v.client, TRUE, 0, 0)
                  fd == IF doDisc /\ ~d.ret THEN force_disconnect(d.m, d.client, ofd)
                        ELSE Res(d.m, d.client, TRUE, 0, 0)
                  c  == Cost(vpnEnv, os) + Cost(vpnEnv, od) + Cost(vpnEnv, ofd)
              IN \* outcomes of commands that are not run are not drawn
                 /\ m0.connected => os = Pinned(vpnEnv)
                 /\ ~doDisc => od = Pinned(vpnEnv)
                 /\ ~(doDisc /\ ~d.ret) => ofd = Pinned(vpnEnv)
                 /\ vm' = [vm EXCEPT ![rot.mgr] = fd.m]
                 /\ client' = fd.client
                 /\ vfaults' = vfaults - c
                 /\ rot' = Account(Account(rot, d, c = 0 /\ vpnEnv = "ok"),
                                   fd, c = 0 /\ vpnEnv = "ok")
                 /\ pc' = "rot_conn"
       ELSE /\ pc' = "rot_final"
            /\ UNCHANGED <<vm, client, vfaults, rot>>
    /\ UNCHANGED <<vpnEnv, site, call, procVars, batch, dailyPending, tasks>>

\* downloader.py:216-219: a failed connect picks another location unless it
\* a record of the location-specific connect commands that the VPN client
\* received: last is the location the latest one named, repeated tells that
\* the one before it named the same
NoCommands ==
    [op |-> "commands", oc |-> "ok", os |-> "ok", ret |-> FALSE,
     status |-> "disconnected", raised |-> FALSE, last |-> NoLocation,
     repeated |-> FALSE]

\* line 122: ["windscribe", "connect", location] is run with outcome oc; a
\* command that could not be started is not recorded
Recorded(c, location, oc) ==
    IF c.op = "commands" /\ oc # "exc"
    THEN [c EXCEPT !.repeated = (c.last = location), !.last = location]
    ELSE c

\* was the last retry
PicksNewLocation(retry_count, maxr) == retry_count < maxr

\* downloader.py:198-229: connect to the location, verify, count the retry
RotLoopConnect ==
    /\ pc = "rot_conn"
    /\ \E od \in Possible(vpnEnv, vfaults) :
       \E oc \in Possible(vpnEnv, vfaults - Cost(vpnEnv, od)) :
       \E os \in Possible(vpnEnv, vfaults - Cost(vpnEnv, od) - Cost(vpnEnv, oc)) :
       \E ov \in Possible(vpnEnv, vfaults - Cost(vpnEnv, od) - Cost(vpnEnv, oc)
                                           - Cost(vpnEnv, os)) :
         LET m0 == vm[rot.mgr]
             cn == connect(m0, client, rot.location, od, oc, os)
             v  == IF cn.ret THEN verify_connection_status(cn.m, cn.client, ov)
                   ELSE Res(cn.m, cn.client, FALSE, 0, 0)
             c  == Cost(vpnEnv, od) + Cost(vpnEnv, oc) + Cost(vpnEnv, os)
                   + Cost(vpnEnv, ov)
             f1 == [Account(rot, cn, c = 0 /\ vpnEnv = "ok") EXCEPT !.nLoc = @ + 1]
         IN /\ ~m0.connected => od = Pinned(vpnEnv)
            /\ oc # "ok" => os = Pinned(vpnEnv)
            /\ ~cn.ret => ov = Pinned(vpnEnv)
            /\ client' = v.client
            /\ vfaults' = vfaults - c
            /\ call' = Recorded(call, rot.location, oc)
            /\ IF cn.ret /\ v.ret
               THEN /\ vm' = [vm EXCEPT ![rot.mgr] =
                                [v.m EXCEPT !.attempts = AttemptsAfterSuccess(@),
                                            !.fails = 0]]
                    /\ rot' = [f1 EXCEPT !.result = TRUE]
                    /\ pc' = "rot_ret"
               ELSE IF ~cn.ret /\ PicksNewLocation(rot.retry_count, rot.max_retries)
               THEN /\ vm' = [vm EXCEPT ![rot.mgr] =
                                [v.m EXCEPT !.idx = AdvanceIndex(v.m)]]
                    /\ rot' = [f1 EXCEPT !.location = NextLocation(v.m),
                                         !.retry_count = @ + 1]
                    /\ pc' = "rot_loop"
               ELSE /\ vm' = [vm EXCEPT ![rot.mgr] = v.m]
                    /\ rot' = [f1 EXCEPT !.retry_count = @ + 1]
                    /\ pc' = "rot_loop"
    /\ UNCHANGED <<vpnEnv, site, procVars, batch, dailyPending, tasks>>

\* downloader.py:231-243: the last attempt, with no location
RotFinal ==
    /\ pc = "rot_final"
    /\ \E od \in Possible(vpnEnv, vfaults) :
       \E oc \in Possible(vpnEnv, vfaults - Cost(vpnEnv, od)) :
       \E os \in Possible(vpnEnv, vfaults - Cost(vpnEnv, od) - Cost(vpnEnv, oc)) :
       \E ov \in Possible(vpnEnv, vfaults - Cost(vpnEnv, od) - Cost(vpnEnv, oc)
                                           - Cost(vpnEnv, os)) :
         LET m0 == vm[rot.mgr]
             cn == connect(m0, client, NoLocation, od, oc, os)
             v  == IF cn.ret THEN verify_connection_status(cn.m, cn.client, ov)
                   ELSE Res(cn.m, cn.client, FALSE, 0, 0)
             c  == Cost(vpnEnv, od) + Cost(vpnEnv, oc) + Cost(vpnEnv, os)
                   + Cost(vpnEnv, ov)
             f1 == [Account(rot, cn, c = 0 /\ vpnEnv = "ok") EXCEPT !.nAuto = @ + 1]
         IN /\ ~m0.connected => od = Pinned(vpnEnv)
            /\ oc # "ok" => os = Pinned(vpnEnv)
            /\ ~cn.ret => ov = Pinned(vpnEnv)
            /\ client' = v.client
            /\ vfaults' = vfaults - c
            /\ IF cn.ret /\ v.ret
               THEN /\ vm' = [vm EXCEPT ![rot.mgr] =
                                [v.m EXCEPT !.attempts = AttemptsAfterSuccess(@),
                                            !.fails = 0]]
                    /\ rot' = [f1 EXCEPT !.result = TRUE]
               ELSE /\ vm' = [vm EXCEPT ![rot.mgr] =
                                [v.m EXCEPT !.fails = FailsAfterFailure(@)]]
                    /\ rot' = [f1 EXCEPT !.result = FALSE]
            /\ pc' = "rot_ret"
    /\ UNCHANGED <<vpnEnv, site, call, procVars, batch, dailyPending, tasks>>


(***************************************************************************)
(* ImageProcessor (src/core/downloader.py, lines 292-1313).                *)
(***************************************************************************)
\* ImageProcessor.max_requests_before_rotation (downloader.py:300)
max_requests_before_rotation == 3

\* ImageProcessor.max_retries (downloader.py:301)
max_retries == 4

\* process_image's max_connection_attempts (downloader.py:858)
max_connection_attempts == 3

\* failures the environment may inject into the browser sessions of one run
MaxSiteFaults == 2

\* failures the environment may inject into the VPN commands of one batch run
\* while the service is up; a service that is down or absent fails every
\* command
MaxBatchVpnFaults == 0

\* the outcomes of an awaited browser call: the nominal one is free, any
\* other one is paid from the budget
Outcomes(nominal, others) ==
    IF sfaults > 0 THEN {nominal} \cup others ELSE {nominal}

Spend(nominal, o) == IF o = nominal THEN sfaults ELSE sfaults - 1

\* what the page shows: its text is abstracted to the one limit phrase it
\* contains ("" for none)
PageTexts ==
    {"", "daily limit", "try again tomorrow", "try again later",
     "hit your limit", "subscribe"}

\* the phrases the specification classifies as a daily (account) limit
DailyPhrases == {"daily limit", "try again tomorrow"}

\* daily_limit_phrases of the page-load check (downloader.py:928-936); the
\* second and third literal are one string, "You've hit your daily
\* limithit your limit", which no page text of PageTexts contains
LoadPhrases ==
    {"daily limit", "reached your limit", "try again tomorrow",
     "try again later", "too many requests"}

\* the phrases of lines 929-935 with the second and the third literal
\* apart, as the list of the disabled-button check has them
ListedLoadPhrases == LoadPhrases \cup {"hit your limit"}

\* limit_phrases of the disabled-button check (downloader.py:1085-1096 and
\* 601-612)
DisabledPhrases ==
    {"daily limit", "hit your limit", "reached your limit",
     "try again tomorrow", "try again later", "too many requests",
     "subscribe", "premium", "upgrade your plan", "upgrade to pro"}

\* "for phrase in phrases: if phrase.lower() in page_text.lower()"
PhraseFound(phrases, text) == text # "" /\ text \in phrases

(***************************************************************************)
(* Exceptions and how the retry handler reads their message.               *)
(***************************************************************************)
NoExc == [type |-> "none", phrase |-> ""]

Raise(type) == [type |-> type, phrase |-> ""]

\* rate_limit_indicators (downloader.py:1277-1280)
rate_limit_indicators ==
    {"limit", "quota", "exceeded", "429", "too many", "try again",
     "tomorrow", "later", "daily"}

\* the indicators that occur in a phrase
PhraseIndicators(p) ==
    CASE p = "daily limit"         -> {"limit", "daily"}
      [] p = "reached your limit"  -> {"limit"}
      [] p = "hit your limit"      -> {"limit"}
      [] p = "try again tomorrow"  -> {"try again", "tomorrow"}
      [] p = "try again later"     -> {"try again", "later"}
      [] p = "too many requests"   -> {"too many"}
      [] OTHER                     -> {}

\* the indicators that occur in str(e).lower():
\*   DailyLimit  "Daily limit detected: <phrase>"            (line 949)
\*   UsageLimit  "Hit usage limit - IP rotated and will retry with new
\*                connection"                                (line 1123)
\*   Timeout     "Timeout 30000ms exceeded."                 (Playwright)
\*   NameError   "name 'context' is not defined"
\*   NoButton    "Download button not found after processing ..."
\*   Error       any other browser error ("net::ERR_NETWORK_CHANGED",
\*               "Target page, context or browser has been closed")
Indicators(e) ==
    CASE e.type = "DailyLimit" -> {"limit", "daily"} \cup PhraseIndicators(e.phrase)
      [] e.type = "UsageLimit" -> {"limit"}
      [] e.type = "Timeout"    -> {"exceeded"}
      [] OTHER                 -> {}

\* "any(indicator in error_lower for indicator in rate_limit_indicators)"
IsRateLimit(e) == Indicators(e) \cap rate_limit_indicators # {}

\* force_reconnect of the retry handler (downloader.py:1286)
HandlerForceReconnect(e, retries) ==
    \/ "tomorrow" \in Indicators(e)
    \/ "daily" \in Indicators(e)
    \/ retries > 1

\* force_reconnect of the disabled-button branch: the call at line 1115
\* passes none
DisabledForceReconnect(text) == FALSE

\* the kinds of failure an awaited browser call raises
FailTypes == {"Error", "Timeout"}

(***************************************************************************)
(* Frames.                                                                 *)
(***************************************************************************)
NoMr == [force |-> FALSE, fr |-> FALSE, ret |-> "none", result |-> FALSE]

MrFrame(force, fr, ret) ==
    [force |-> force, fr |-> fr, ret |-> ret, result |-> FALSE]

\* ImageProcessor.__init__ and the locals of process_image; started counts
\* the session attempts, saved tells that _detect_image_format_and_save
\* wrote the output file, counted counts the failed attempts that had
\* loaded the page and found no limit
NewProc ==
    [daily |-> FALSE, retries |-> 0, conn |-> 0, started |-> 0,
     saved |-> FALSE, counted |-> 0]

\* the session of one attempt: reached tells that page.goto returned,
\* loadLimit that the page text read after it held a limit phrase, verified
\* that an upload method verified the upload, image what the search for a
\* result image after a failed download found, page the elements of the
\* page that show "Download" and download_button the one chosen among them,
\* limit that the attempt detected a usage limit and rots the rotate_ip
\* calls made since it did
NoSess ==
    [browser |-> "none", context |-> "none", button |-> "none",
     disText |-> "none", forced |-> FALSE, scripted |-> FALSE,
     alt |-> FALSE, reached |-> FALSE, loadLimit |-> FALSE,
     verified |-> FALSE, image |-> "unseen", page |-> <<>>,
     download_button |-> 0, limit |-> FALSE, rots |-> 0]

\* the exceptions that a detected usage limit raises (lines 949 and 1123)
LimitKinds == {"DailyLimit", "UsageLimit"}

\* an attempt that used the service and failed for another reason than a
\* usage limit
SpentRequest(s, p, e) == s.reached /\ ~p.daily /\ e.type \notin LimitKinds

NoResult == [kind |-> "pending", ext |-> "", format |-> "", empty |-> FALSE]

ReturnNone == [NoResult EXCEPT !.kind = "none"]

\* variables a browser step leaves alone
quiet == <<vpnEnv, site, call, client, vfaults, vm, rot, request_count, rcLast, batch>>

(***************************************************************************)
(* ImageProcessor._maybe_rotate_ip (downloader.py:341-384).                *)
(***************************************************************************)
\* a usage limit is detected in the session
Detected(s) == [s EXCEPT !.limit = TRUE]

\* rotate_ip is called (lines 351 and 375)
Invoked(s) == [s EXCEPT !.rots = IF s.limit THEN @ + 1 ELSE @]

\* a counter that skips a value
CountSkipsOne(c) == c + 2

\* line 370: ImageProcessor.request_count += 1
CountAfterRequest(c) == c + 1

\* the counter after a successful rotation (lines 355 and 378)
CountKept(c) == c

CountAfterRotation(c) == 0

\* a counter that never asks for a rotation
NeverDue(c) == FALSE

\* line 373
RotationDue(c) == c >= max_requests_before_rotation

\* a reset that does not look at what rotate_ip returned
Regardless(returned) == TRUE

\* lines 352 and 375: "if ImageProcessor.vpn_manager.rotate_ip(...)"
RotationSucceeded(returned) == returned

\* lines 350-352 start the forced rotation; lines 362-375 verify, connect,
\* count and start the counter-based rotation
MrEntry ==
    /\ pc = "mr_entry"
    /\ IF mr.force \/ proc.daily
       THEN /\ rot' = RotFrame("ip", "mr_forced", NoLocation, TRUE,
                               DefaultMaxRetries, mr.fr, client)
            /\ pc' = "rot_entry"
            /\ sess' = Invoked(sess)
            /\ UNCHANGED <<client, vfaults, vm, request_count, rcLast, mr>>
       ELSE \E ov \in Possible(vpnEnv, vfaults) :
            \E od \in Possible(vpnEnv, vfaults - Cost(vpnEnv, ov)) :
            \E oc \in Possible(vpnEnv, vfaults - Cost(vpnEnv, ov) - Cost(vpnEnv, od)) :
            \E os \in Possible(vpnEnv, vfaults - Cost(vpnEnv, ov)
                                 - Cost(vpnEnv, od) - Cost(vpnEnv, oc)) :
              LET v == verify_connection_status(vm["ip"], client, ov)
                  c == IF v.ret THEN v
                       ELSE connect(v.m, v.client, NoLocation, od, oc, os)
              IN /\ (v.ret \/ ~v.m.connected) => od = Pinned(vpnEnv)
                 /\ v.ret => oc = Pinned(vpnEnv)
                 /\ (v.ret \/ oc # "ok") => os = Pinned(vpnEnv)
                 /\ vm' = [vm EXCEPT !["ip"] = c.m]
                 /\ client' = c.client
                 /\ vfaults' = vfaults - Cost(vpnEnv, ov) - Cost(vpnEnv, od)
                                 - Cost(vpnEnv, oc) - Cost(vpnEnv, os)
                 /\ request_count' = CountAfterRequest(request_count)
                 /\ rcLast' = "increment"
                 /\ IF RotationDue(CountAfterRequest(request_count))
                    THEN /\ rot' = RotFrame("ip", "mr_counter", NoLocation,
                                            FALSE, DefaultMaxRetries, mr.fr,
                                            c.client)
                         /\ pc' = "rot_entry"
                         /\ mr' = mr
                         /\ sess' = Invoked(sess)
                    ELSE /\ mr' = [mr EXCEPT !.result = TRUE]
                         /\ pc' = "mr_ret"
                         /\ rot' = rot
                         /\ sess' = sess
    /\ UNCHANGED <<vpnEnv, site, call, batch, proc, exc, result, sfaults,
                   dailyPending, tasks>>

\* lines 352-360: the forced rotation returned
MrForcedReturns ==
    /\ pc = "rot_ret"
    /\ rot.ret = "mr_forced"
    /\ IF RotationSucceeded(rot.result)
       THEN /\ request_count' = CountAfterRotation(request_count)
            /\ rcLast' = "mr_forced"
            /\ proc' = [proc EXCEPT !.daily = FALSE]
       ELSE UNCHANGED <<request_count, rcLast, proc>>
    /\ mr' = [mr EXCEPT !.result = rot.result]
    /\ rot' = NoRot
    /\ pc' = "mr_ret"
    /\ UNCHANGED <<vpnEnv, site, call, client, vfaults, vm, batch, sess, exc, result,
                   sfaults, dailyPending, tasks>>

\* lines 375-382: the counter-based rotation returned
MrCounterReturns ==
    /\ pc = "rot_ret"
    /\ rot.ret = "mr_counter"
    /\ IF RotationSucceeded(rot.result)
       THEN /\ request_count' = CountAfterRotation(request_count)
            /\ rcLast' = "mr_counter"
       ELSE UNCHANGED <<request_count, rcLast>>
    /\ mr' = [mr EXCEPT !.result = rot.result]
    /\ rot' = NoRot
    /\ pc' = "mr_ret"
    /\ UNCHANGED <<vpnEnv, site, call, client, vfaults, vm, batch, proc, sess, exc,
                   result, sfaults, dailyPending, tasks>>

(***************************************************************************)
(* ImageProcessor.process_image (downloader.py:842-1313): the prologue,    *)
(* the retry loop and its handler.                                         *)
(***************************************************************************)
\* line 853: the VPN check before processing
PiVerify ==
    /\ pc = "pi_start"
    /\ \E o \in Possible(vpnEnv, vfaults) :
         LET r == verify_connection_status(vm["ip"], client, o)
         IN /\ vm' = [vm EXCEPT !["ip"] = r.m]
            /\ client' = r.client
            /\ vfaults' = vfaults - Cost(vpnEnv, o)
            /\ IF r.ret
               THEN /\ pc' = "mr_entry"
                    /\ mr' = MrFrame(FALSE, FALSE, "pi_pre")
               ELSE /\ pc' = "pi_conn"
                    /\ mr' = mr
    /\ UNCHANGED <<vpnEnv, site, call, rot, request_count, rcLast, batch, proc, sess, exc,
                   result, sfaults, dailyPending, tasks>>

\* line 860
ConnectLoopContinues(attempts) == attempts < max_connection_attempts

\* lines 860-882: one round of the connection loop, then _maybe_rotate_ip()
PiConnect ==
    /\ pc = "pi_conn"
    /\ \E od \in Possible(vpnEnv, vfaults) :
       \E oc \in Possible(vpnEnv, vfaults - Cost(vpnEnv, od)) :
       \E os \in Possible(vpnEnv, vfaults - Cost(vpnEnv, od) - Cost(vpnEnv, oc)) :
         LET m0 == vm["ip"]
             m1 == [m0 EXCEPT !.idx = AdvanceIndex(m0)]
             r  == connect(m1, client, NextLocation(m0), od, oc, os)
         IN /\ ~m0.connected => od = Pinned(vpnEnv)
            /\ oc # "ok" => os = Pinned(vpnEnv)
            /\ vm' = [vm EXCEPT !["ip"] = r.m]
            /\ client' = r.client
            /\ vfaults' = vfaults - Cost(vpnEnv, od) - Cost(vpnEnv, oc)
                            - Cost(vpnEnv, os)
            /\ call' = Recorded(call, NextLocation(m0), oc)
            /\ IF r.ret \/ ~ConnectLoopContinues(proc.conn + 1)
               THEN /\ pc' = "mr_entry"
                    /\ mr' = MrFrame(FALSE, FALSE, "pi_pre")
                    /\ proc' = [proc EXCEPT !.conn = 0]
               ELSE /\ pc' = "pi_conn"
                    /\ mr' = mr
                    /\ proc' = [proc EXCEPT !.conn = @ + 1]
    /\ UNCHANGED <<vpnEnv, site, rot, request_count, rcLast, batch, sess, exc,
                   result, sfaults, dailyPending, tasks>>

\* line 882 returned (its value is not used)
PiPreDone ==
    /\ pc = "mr_ret"
    /\ mr.ret = "pi_pre"
    /\ pc' = "pi_loop"
    /\ mr' = NoMr
    /\ UNCHANGED <<quiet, proc, sess, exc, result, sfaults, dailyPending, tasks>>

\* line 884
LoopContinues(retries) == retries < max_retries

\* line 884: "while retries < self.max_retries", and line 1313
PiLoop ==
    /\ pc = "pi_loop"
    /\ IF LoopContinues(proc.retries)
       THEN /\ pc' = "s_launch"
            /\ proc' = [proc EXCEPT !.started = @ + 1]
            /\ sess' = NoSess
            /\ exc' = NoExc
            /\ result' = result
       ELSE /\ pc' = "pi_ret"
            /\ result' = ReturnNone
            /\ UNCHANGED <<proc, sess, exc>>
    /\ UNCHANGED <<quiet, mr, sfaults, dailyPending, tasks>>

\* line 1271
RetriesSame(r) == r

RetriesAfterFailure(r) == r + 1

\* the session of a failed attempt once the handler of line 1270 has the
\* exception: its page is gone, the browser and the context are what the
\* attempt left of them
Ended(s) ==
    [NoSess EXCEPT !.browser = s.browser, !.context = s.context,
                   !.limit = s.limit, !.rots = s.rots]

\* lines 1270-1289: the handler counts the failure, reads the message and
\* rotates when it names a limit
OuterHandler ==
    /\ pc = "outer_exc"
    /\ proc' = [proc EXCEPT !.retries = RetriesAfterFailure(@),
                            !.counted = IF SpentRequest(sess, proc, exc)
                                        THEN @ + 1 ELSE @]
    /\ IF IsRateLimit(exc)
       THEN /\ pc' = "mr_entry"
            /\ mr' = MrFrame(TRUE,
                             HandlerForceReconnect(exc, RetriesAfterFailure(proc.retries)),
                             "outer")
       ELSE /\ pc' = "outer_chk"
            /\ mr' = mr
    /\ batch' = [batch EXCEPT !.rotSince = 0]
    /\ sess' = Ended(sess)
    /\ exc' = NoExc
    /\ UNCHANGED <<vpnEnv, site, call, client, vfaults, vm, rot, request_count, rcLast,
                   result, sfaults, dailyPending, tasks>>

\* lines 1289-1300: the handler's rotation returned
OuterRotated ==
    /\ pc = "mr_ret"
    /\ mr.ret = "outer"
    /\ pc' = "outer_chk"
    /\ mr' = NoMr
    /\ UNCHANGED <<quiet, proc, sess, exc, result, sfaults, dailyPending, tasks>>

\* line 1308
Exhausted(retries) == retries >= max_retries

\* lines 1307-1310
OuterCheck ==
    /\ pc = "outer_chk"
    /\ IF Exhausted(proc.retries)
       THEN /\ pc' = "pi_ret"
            /\ result' = ReturnNone
       ELSE /\ pc' = "pi_loop"
            /\ result' = result
    /\ UNCHANGED <<quiet, proc, sess, mr, exc, sfaults, dailyPending, tasks>>

(***************************************************************************)
(* One session attempt of process_image (downloader.py:885-1268).          *)
(***************************************************************************)
\* an awaited call of the session's set-up that either succeeds or raises
\* to the handler at pc "to"
Fails(o, to) ==
    /\ o \in FailTypes
    /\ exc' = Raise(o)
    /\ pc' = to

\* context.close() and browser.close() (closing twice is harmless)
Closed(s) ==
    [s EXCEPT !.context = IF @ = "open" THEN "closed" ELSE @,
              !.browser = IF @ = "open" THEN "closed" ELSE @]

\* line 889: playwright.chromium.launch
SLaunch ==
    /\ pc = "s_launch"
    /\ \E o \in Outcomes("ok", FailTypes) :
         /\ sfaults' = Spend("ok", o)
         /\ \/ /\ o = "ok"
               /\ sess' = [sess EXCEPT !.browser = "open"]
               /\ pc' = "s_context"
               /\ exc' = exc
            \/ /\ Fails(o, "outer_exc")
               /\ sess' = sess
    /\ UNCHANGED <<quiet, proc, mr, result, dailyPending, tasks>>

\* line 901: browser.new_context, outside the inner try of line 921
SContext ==
    /\ pc = "s_context"
    /\ \E o \in Outcomes("ok", FailTypes) :
         /\ sfaults' = Spend("ok", o)
         /\ \/ /\ o = "ok"
               /\ sess' = [sess EXCEPT !.context = "open"]
               /\ pc' = "s_headers"
               /\ exc' = exc
            \/ /\ Fails(o, "outer_exc")
               /\ sess' = sess
    /\ UNCHANGED <<quiet, proc, mr, result, dailyPending, tasks>>

\* line 909: context.set_extra_http_headers, outside the inner try
SHeaders ==
    /\ pc = "s_headers"
    /\ \E o \in Outcomes("ok", FailTypes) :
         /\ sfaults' = Spend("ok", o)
         /\ \/ /\ o = "ok"
               /\ pc' = "s_newpage"
               /\ exc' = exc
            \/ Fails(o, "outer_exc")
    /\ UNCHANGED <<quiet, proc, sess, mr, result, dailyPending, tasks>>

\* line 918: context.new_page, outside the inner try
SNewPage ==
    /\ pc = "s_newpage"
    /\ \E o \in Outcomes("ok", FailTypes) :
         /\ sfaults' = Spend("ok", o)
         /\ \/ /\ o = "ok"
               /\ pc' = "s_goto"
               /\ exc' = exc
            \/ Fails(o, "outer_exc")
    /\ UNCHANGED <<quiet, proc, sess, mr, result, dailyPending, tasks>>

\* what page.goto can do: without a network it raises
\* ("net::ERR_INTERNET_DISCONNECTED")
GotoOutcomes ==
    IF site = "offline" THEN {"Error"} ELSE Outcomes("ok", FailTypes)

\* line 924: page.goto, the first statement of the inner try
SGoto ==
    /\ pc = "s_goto"
    /\ \E o \in GotoOutcomes :
         /\ sfaults' = IF site = "offline" THEN sfaults ELSE Spend("ok", o)
         /\ \/ /\ o = "ok"
               /\ pc' = "s_loadtext"
               /\ exc' = exc
               /\ sess' = [sess EXCEPT !.reached = TRUE]
            \/ /\ Fails(o, "inner_exc")
               /\ sess' = sess
    /\ UNCHANGED <<quiet, proc, mr, result, dailyPending, tasks>>

\* lines 927-953: the limit check on page load
SLoadText ==
    /\ pc = "s_loadtext"
    /\ \E text \in Outcomes("", PageTexts \ {""}) :
         /\ sfaults' = Spend("", text)
         /\ sess' = [sess EXCEPT !.loadLimit = PhraseFound(ListedLoadPhrases, text),
                                 !.limit = PhraseFound(LoadPhrases, text)]
         /\ IF PhraseFound(LoadPhrases, text)
            THEN /\ proc' = [proc EXCEPT !.daily = TRUE]
                 /\ exc' = [type |-> "DailyLimit", phrase |-> text]
                 /\ dailyPending' = (text \in DailyPhrases)
                 /\ tasks' = tasks
                 /\ pc' = "inner_exc"
            ELSE /\ pc' = "u_std"
                 /\ UNCHANGED <<proc, exc, dailyPending, tasks>>
    /\ UNCHANGED <<quiet, mr, result>>

\* ImageProcessor._verify_file_uploaded is called at lines 439 and 522 and
\* defined nowhere; by the specification it is the post-condition check of
\* the upload (a thumbnail or the file name appears on the page)
verify_file_uploaded(shown) == shown

\* _upload_file (lines 386-453): the file input is found, the file is set
\* and the upload verifies, or the method falls to _upload_file_alternative
UStandard ==
    /\ pc = "u_std"
    /\ \E o \in Outcomes("shown", {"not_shown", "no_input"}) :
         /\ sfaults' = Spend("shown", o)
         /\ IF o # "no_input" /\ verify_file_uploaded(o = "shown")
            THEN /\ pc' = "s_waitbtn"
                 /\ sess' = [sess EXCEPT !.verified = TRUE]
            ELSE /\ pc' = "u_alt"
                 /\ sess' = [sess EXCEPT !.alt = TRUE]
    /\ UNCHANGED <<quiet, proc, mr, exc, result, dailyPending, tasks>>

\* the file a fallback screenshot names: fallback_<input name>, written by
\* page.screenshot in the format of the input's extension
Screenshot == [kind |-> "screenshot", ext |-> "jpg", format |-> "jpeg",
               empty |-> FALSE]

\* lines 967-1068 and 1074: the processing buttons, the wait for the
\* download button and, when there is none, the screenshot fallback
SWaitButton ==
    /\ pc = "s_waitbtn"
    /\ \E o \in Outcomes("enabled", {"disabled", "none_image", "none"}) :
         /\ sfaults' = Spend("enabled", o)
         /\ CASE o = "enabled" ->
                   /\ sess' = [sess EXCEPT !.button = "enabled"]
                   /\ pc' = "s_expect"
                   /\ UNCHANGED <<exc, result>>
              [] o = "disabled" ->
                   /\ sess' = [sess EXCEPT !.button = "disabled"]
                   /\ pc' = "s_distext"
                   /\ UNCHANGED <<exc, result>>
              [] o = "none_image" ->
                   /\ sess' = Closed(sess)
                   /\ result' = Screenshot
                   /\ pc' = "pi_ret"
                   /\ exc' = exc
              [] OTHER ->
                   /\ exc' = Raise("NoButton")
                   /\ pc' = "inner_exc"
                   /\ UNCHANGED <<sess, result>>
    /\ UNCHANGED <<quiet, proc, mr, dailyPending, tasks>>

\* lines 1079-1081: the page text is read when the button is disabled
SDisabledRead ==
    /\ pc = "s_distext"
    /\ \E text \in PageTexts :
         sess' = [sess EXCEPT !.disText = text]
    /\ pc' = "s_disdecide"
    /\ UNCHANGED <<quiet, proc, mr, exc, result, sfaults, dailyPending, tasks>>

\* lines 1098-1148: a limit phrase abandons the attempt (close, rotate,
\* raise); without one the button is enabled and clicked by script
SDisabledDecide ==
    /\ pc = "s_disdecide"
    /\ IF PhraseFound(DisabledPhrases, sess.disText)
       THEN /\ proc' = [proc EXCEPT !.daily = TRUE]
            /\ sess' = Detected(Closed(sess))
            /\ mr' = MrFrame(TRUE, DisabledForceReconnect(sess.disText),
                             "dis_limit")
            /\ dailyPending' = (sess.disText \in DailyPhrases)
            /\ tasks' = tasks
            /\ pc' = "mr_entry"
       ELSE /\ sess' = [sess EXCEPT !.scripted = TRUE]
            /\ pc' = "s_expect"
            /\ UNCHANGED <<proc, mr, dailyPending, tasks>>
    /\ UNCHANGED <<quiet, exc, result, sfaults>>

\* line 1123: the rotation of line 1115 returned
SDisabledRaise ==
    /\ pc = "mr_ret"
    /\ mr.ret = "dis_limit"
    /\ exc' = Raise("UsageLimit")
    /\ pc' = "inner_exc"
    /\ mr' = NoMr
    /\ UNCHANGED <<quiet, proc, sess, result, sfaults, dailyPending, tasks>>

\* lines 1152-1158: expect_download around the forced click; leaving the
\* block waits for the download event
SExpect ==
    /\ pc = "s_expect"
    /\ \E o \in Outcomes("download", {"Timeout"}) :
         /\ sfaults' = Spend("download", o)
         /\ sess' = [sess EXCEPT !.forced = TRUE]
         /\ \/ /\ o = "download"
               /\ pc' = "s_dl"
               /\ exc' = exc
            \/ Fails(o, "inner_exc")
    /\ UNCHANGED <<quiet, proc, mr, result, dailyPending, tasks>>

\* lines 1163-1216 and 1237-1249: download.failure(); a limit-related
\* failure closes and rotates; any other ends in the fallback screenshot,
\* returned at line 1211 when the page holds a candidate image and, when it
\* holds none, at line 1249 by the handler of the exception of line 1216
SDownload ==
    /\ pc = "s_dl"
    /\ \E o \in Outcomes("none", {"limit", "other", "other_no_image"}) :
         /\ sfaults' = Spend("none", o)
         /\ CASE o = "none" ->
                   /\ pc' = "s_save"
                   /\ UNCHANGED <<proc, sess, mr, result>>
              [] o = "limit" ->
                   /\ proc' = [proc EXCEPT !.daily = TRUE]
                   /\ sess' = Detected(Closed(sess))
                   /\ mr' = MrFrame(TRUE, FALSE, "dl_limit")
                   /\ pc' = "mr_entry"
                   /\ result' = result
              [] OTHER ->
                   /\ sess' = [Closed(sess) EXCEPT !.image =
                                 IF o = "other" THEN "found" ELSE "none"]
                   /\ result' = Screenshot
                   /\ pc' = "pi_ret"
                   /\ UNCHANGED <<proc, mr>>
    /\ UNCHANGED <<quiet, exc, dailyPending, tasks>>

\* lines 1184 and 1243: after the rotation of line 1179 both screenshots
\* are taken of a closed page and raise
SDownloadLimitRaise ==
    /\ pc = "mr_ret"
    /\ mr.ret = "dl_limit"
    /\ exc' = Raise("Error")
    /\ pc' = "inner_exc"
    /\ mr' = NoMr
    /\ UNCHANGED <<quiet, proc, sess, result, sfaults, dailyPending, tasks>>

\* what a download can hold
Contents == {"png", "jpeg", "webp", "garbage", "empty"}

\* Image.open succeeds
Recognised(content) == content \in {"png", "jpeg", "webp"}

\* _detect_image_format_and_save (lines 312-339): the file it writes and
\* returns; when PIL cannot open the data the bytes go to the .jpg path
detect_image_format_and_save(content) ==
    IF Recognised(content)
    THEN [kind |-> "saved", ext |-> content, format |-> content,
          empty |-> FALSE]
    ELSE [kind |-> "saved", ext |-> "jpg", format |-> "unknown",
          empty |-> (content = "empty")]

\* lines 1219-1235 and 1237-1249: download.suggested_filename() is called;
\* when it returns, the data is read, saved and its path returned; when it
\* raises, the fallback screenshot is returned
SSave ==
    /\ pc = "s_save"
    /\ \E o \in Outcomes("returns", {"raises"}) :
         /\ sfaults' = Spend("returns", o)
         /\ IF o = "returns"
            THEN \E content \in Contents :
                   /\ result' = detect_image_format_and_save(content)
                   /\ proc' = [proc EXCEPT !.saved = TRUE]
            ELSE /\ result' = Screenshot
                 /\ proc' = proc
    /\ sess' = Closed(sess)
    /\ pc' = "pi_ret"
    /\ UNCHANGED <<quiet, mr, exc, dailyPending, tasks>>

\* an exception that leaves every handler of process_image
RaisedUncaught == "escaped"

\* an exception raised inside the handler of line 1254 is raised inside
\* the try of line 885: the handler of line 1270 receives it
RaisedInHandler == "outer_exc"

\* what context.close() and browser.close() of lines 1264-1265 can do:
\* both return, or one of them raises
CloseOutcomes == {"context_close_raises", "browser_close_raises"}

\* the session after the two close calls of the handler
ClosedBy(s, o) ==
    CASE o = "context_close_raises" -> s
      [] o = "browser_close_raises" ->
             [s EXCEPT !.context = IF @ = "open" THEN "closed" ELSE @]
      [] OTHER -> Closed(s)

\* lines 1254-1268: the handler of the inner try closes the context and the
\* browser and re-raises; a close call that raises replaces the exception
InnerHandler ==
    /\ pc = "inner_exc"
    /\ \E o \in Outcomes("closed", CloseOutcomes) :
         /\ sfaults' = Spend("closed", o)
         /\ sess' = ClosedBy(sess, o)
         /\ IF o = "closed"
            THEN exc' = exc /\ pc' = "outer_exc"
            ELSE exc' = Raise("Error") /\ pc' = RaisedInHandler
    /\ UNCHANGED <<quiet, proc, mr, result, dailyPending, tasks>>

\* the positions at which a session attempt awaits with its browser launched
\* (lines 901-1268)
AwaitPcs ==
    {"s_context", "s_headers", "s_newpage", "s_goto", "s_loadtext", "u_std",
     "u_alt", "u_waitbtn", "u_distext", "u_disdecide", "u_expect", "u_dl",
     "s_waitbtn", "s_distext", "s_disdecide", "s_expect", "s_dl", "s_save",
     "inner_exc"}

\* the task is cancelled (asyncio.run at __main__.py:141 cancels it on an
\* interrupt): the await raises CancelledError, a BaseException, which
\* neither "except Exception" of lines 1254 and 1270 nor the one of
\* dewatermarker.py:405 catches, and no finally clause exists
Cancelled ==
    /\ pc \in AwaitPcs
    /\ sess.browser = "open"
    /\ sfaults > 0
    /\ sfaults' = sfaults - 1
    /\ exc' = Raise("CancelledError")
    /\ pc' = "cancelled"
    /\ UNCHANGED <<quiet, proc, sess, mr, result, dailyPending, tasks>>

(***************************************************************************)
(* ImageProcessor._upload_file_alternative (downloader.py:455-840).  After  *)
(* its two upload methods it runs a download sequence of its own, which     *)
(* names context, browser and retries: none of them is defined in the       *)
(* method, so reaching one of them raises NameError.                        *)
(***************************************************************************)
\* lines 457-529: the script-started file chooser
UAlternative ==
    /\ pc = "u_alt"
    /\ \E o \in Outcomes("no_zone", {"shown", "Error"}) :
         /\ sfaults' = Spend("no_zone", o)
         /\ CASE o = "shown" /\ verify_file_uploaded(TRUE) ->
                   /\ pc' = "s_waitbtn"
                   /\ sess' = [sess EXCEPT !.verified = TRUE]
                   /\ exc' = exc
              [] o = "Error" ->
                   /\ exc' = Raise("Error")
                   /\ pc' = "inner_exc"
                   /\ sess' = sess
              [] OTHER ->
                   /\ pc' = "u_waitbtn"
                   /\ UNCHANGED <<sess, exc>>
    /\ UNCHANGED <<quiet, proc, mr, result, dailyPending, tasks>>

\* lines 530-590: the upload buttons, then the wait for a download button
UWaitButton ==
    /\ pc = "u_waitbtn"
    /\ \E o \in Outcomes("enabled", {"disabled", "none"}) :
         /\ sfaults' = Spend("enabled", o)
         /\ CASE o = "enabled" ->
                   /\ sess' = [sess EXCEPT !.button = "enabled"]
                   /\ pc' = "u_expect"
                   /\ exc' = exc
              [] o = "disabled" ->
                   /\ sess' = [sess EXCEPT !.button = "disabled"]
                   /\ pc' = "u_distext"
                   /\ exc' = exc
              [] OTHER ->
                   /\ exc' = Raise("NoButton")
                   /\ pc' = "inner_exc"
                   /\ sess' = sess
    /\ UNCHANGED <<quiet, proc, mr, result, dailyPending, tasks>>

\* lines 595-597
UDisabledRead ==
    /\ pc = "u_distext"
    /\ \E text \in PageTexts :
         sess' = [sess EXCEPT !.disText = text]
    /\ pc' = "u_disdecide"
    /\ UNCHANGED <<quiet, proc, mr, exc, result, sfaults, dailyPending, tasks>>

\* lines 614-690: with a limit phrase the flag is set and context.close()
\* of line 627 raises NameError; without one the button is looked at again
\* and, if still disabled, line 673 raises NameError on retries
UDisabledDecide ==
    /\ pc = "u_disdecide"
    /\ IF PhraseFound(DisabledPhrases, sess.disText)
       THEN /\ proc' = [proc EXCEPT !.daily = TRUE]
            /\ sess' = Detected(sess)
            /\ dailyPending' = (sess.disText \in DailyPhrases)
            /\ tasks' = tasks
            /\ exc' = Raise("NameError")
            /\ pc' = "inner_exc"
            /\ sfaults' = sfaults
       ELSE /\ \E o \in Outcomes("enabled", {"disabled"}) :
                 /\ sfaults' = Spend("enabled", o)
                 /\ IF o = "enabled"
                    THEN /\ pc' = "u_expect"
                         /\ exc' = exc
                    ELSE /\ exc' = Raise("NameError")
                         /\ pc' = "inner_exc"
            /\ UNCHANGED <<proc, sess, dailyPending, tasks>>
    /\ UNCHANGED <<quiet, mr, result>>

\* lines 693-775: expect_download around the forced click; when the click
\* raises, a script looks for limit texts near the button and clicks it if
\* there is none
UExpect ==
    /\ pc = "u_expect"
    /\ \E o \in Outcomes("download", {"Timeout", "script_download",
                                      "script_limit"}) :
         /\ sfaults' = Spend("download", o)
         /\ sess' = [sess EXCEPT !.forced = TRUE,
                                 !.scripted = (o = "script_download"),
                                 !.limit = @ \/ o = "script_limit"]
         /\ proc' = [proc EXCEPT !.daily = @ \/ o = "script_limit"]
         /\ IF o \in {"download", "script_download"}
            THEN /\ pc' = "u_dl"
                 /\ exc' = exc
            ELSE /\ exc' = Raise("Timeout")
                 /\ pc' = "inner_exc"
    /\ UNCHANGED <<quiet, mr, result, dailyPending, tasks>>

\* lines 777-840: the download is checked and saved, and then line 825
\* (context.close()) raises NameError; a limit-related failure raises it at
\* line 793
UDownload ==
    /\ pc = "u_dl"
    /\ \E o \in Outcomes("saved", {"limit", "other", "raises"}) :
         /\ sfaults' = Spend("saved", o)
         /\ CASE o = "saved" ->
                   /\ \E content \in Contents :
                        proc' = [proc EXCEPT !.saved =
                           detect_image_format_and_save(content).kind = "saved"]
                   /\ exc' = Raise("NameError")
              [] o = "limit" ->
                   /\ proc' = [proc EXCEPT !.daily = TRUE]
                   /\ exc' = Raise("NameError")
              [] OTHER ->
                   /\ exc' = Raise("Error")
                   /\ proc' = proc
         /\ sess' = IF o = "limit" THEN Detected(sess) ELSE sess
    /\ pc' = "inner_exc"
    /\ UNCHANGED <<quiet, mr, result, dailyPending, tasks>>

(***************************************************************************)
(* The choice of the download control (downloader.py:990-1017), as a       *)
(* function of the page.  A page is the sequence, in document order, of    *)
(* its elements whose text contains "Download".                            *)
(***************************************************************************)
\* download_button_selectors (lines 991-1003)
download_button_selectors ==
    <<"button:has-text('Download'):has(.sc-gueYoa)",
      "button.relative.cursor-pointer:has-text('Download')",
      "button:has(svg):has-text('Download')",
      "button:has(p.font-semibold:has-text('Download'))",
      "button.inline-flex:has-text('Download')",
      "button:has-text('Download')",
      "[data-testid='download-button']",
      ".download-button",
      "button.download",
      "a:has-text('Download')">>

\* the elements a page is made of: a button or a link whose text contains
\* "Download", with or without an svg icon, labelled "PRO" or not, visible
\* or hidden; they carry no class and no data-testid
Elements ==
    [tag : {"button", "a"}, svg : BOOLEAN, pro : BOOLEAN, visible : BOOLEAN]

\* the most elements on a page
MaxElements == 2

Pages == UNION {[1 .. n -> Elements] : n \in 0 .. MaxElements}

\* the selector matches the element
Matches(selector, el) ==
    CASE selector = "button:has(svg):has-text('Download')" ->
             el.tag = "button" /\ el.svg
      [] selector = "button:has-text('Download')" -> el.tag = "button"
      [] selector = "a:has-text('Download')" -> el.tag = "a"
      [] OTHER -> FALSE

\* page.locator(selector).first: the first element in document order that
\* the selector matches, 0 when there is none
First(page, selector) ==
    IF \E i \in 1 .. Len(page) : Matches(selector, page[i])
    THEN CHOOSE i \in 1 .. Len(page) :
            /\ Matches(selector, page[i])
            /\ \A j \in 1 .. i - 1 : ~Matches(selector, page[j])
    ELSE 0

\* page.wait_for_selector(selector, state="visible") returns: the element
\* the selector resolves to is visible before the timeout
WaitForSelector(page, selector) ==
    First(page, selector) # 0 /\ page[First(page, selector)].visible

\* lines 1008-1017: the loop over the selectors from the k-th on; the
\* result is download_button, 0 for None
RECURSIVE ChooseFrom(_, _)
ChooseFrom(page, k) ==
    IF k > Len(download_button_selectors) THEN 0
    ELSE IF WaitForSelector(page, download_button_selectors[k])
         THEN First(page, download_button_selectors[k])
         ELSE ChooseFrom(page, k + 1)

ChooseDownloadButton(page) == ChooseFrom(page, 1)

\* the page has finished processing the upload
PageLoads ==
    /\ pc = "page_idle"
    /\ \E page \in Pages :
         sess' = [sess EXCEPT !.page = page, !.download_button = 0]
    /\ pc' = "page_loaded"
    /\ UNCHANGED <<quiet, proc, mr, exc, result, sfaults, dailyPending, tasks>>

\* lines 1006-1017
PageChoose ==
    /\ pc = "page_loaded"
    /\ sess' = [sess EXCEPT !.download_button = ChooseDownloadButton(sess.page)]
    /\ pc' = "page_chosen"
    /\ UNCHANGED <<quiet, proc, mr, exc, result, sfaults, dailyPending, tasks>>

\* the next page
PageLeaves ==
    /\ pc = "page_chosen"
    /\ sess' = NoSess
    /\ pc' = "page_idle"
    /\ UNCHANGED <<quiet, proc, mr, exc, result, sfaults, dailyPending, tasks>>
(***************************************************************************)
(* Two process_image coroutines on one event loop, as far as the shared    *)
(* request counter goes: each runs _maybe_rotate_ip (downloader.py:341-384)*)
(* statement by statement and gives up the event loop only where the code  *)
(* awaits something that suspends.                                         *)
(***************************************************************************)
Tasks == {"t1", "t2"}

\* a coroutine: pos is where it is, tmp the value of request_count that
\* line 370 read, force and fr the arguments of its _maybe_rotate_ip call,
\* daily its daily_limit_detected and retries its retries
NewTask ==
    [pos |-> "new", tmp |-> 0, force |-> FALSE, fr |-> FALSE,
     daily |-> FALSE, retries |-> 0]

\* running is the coroutine that holds the event loop and counted the
\* number of times line 370 ran since the counter was last set to 0
NoTasks == [running |-> "none", counted |-> 0, co |-> [t \in Tasks |-> NewTask]]

\* the positions at which a coroutine is suspended: not yet started, in an
\* awaited browser call of its session (lines 889-1268), in the
\* asyncio.sleep of the retry handler (lines 1294-1305), or finished
AwaitPositions == {"new", "session", "backoff", "done"}

\* a coroutine that could be suspended wherever it is
SuspendsAnywhere(pos) == TRUE

\* whether the coroutine gives up the event loop at pos: lines 341-384
\* contain no await, and rotate_ip is a synchronous call
Suspends(pos) == pos \in AwaitPositions

\* the event loop lets t take a step
Scheduled(t) ==
    /\ pc = "loop"
    /\ tasks.running \in {t, "none"}

\* t's step took it to the position of c
Moved(t, c) ==
    [tasks EXCEPT !.co[t] = c,
                  !.running = IF Suspends(c.pos) THEN "none" ELSE t]

\* line 882: the coroutine starts and calls _maybe_rotate_ip()
TaskStart(t) ==
    /\ Scheduled(t)
    /\ tasks.co[t].pos = "new"
    /\ tasks' = Moved(t, [tasks.co[t] EXCEPT !.pos = "mr_entry"])
    /\ UNCHANGED <<vpnVars, procVars, pc, batch, dailyPending>>

\* lines 349-365: a forced call rotates; any other call checks the
\* connection first
TaskMrEntry(t) ==
    /\ Scheduled(t)
    /\ tasks.co[t].pos = "mr_entry"
    /\ LET c == tasks.co[t]
       IN IF c.force \/ c.daily
          THEN /\ rot' = RotFrame("ip", "task", NoLocation, TRUE,
                                  DefaultMaxRetries, c.fr, client)
               /\ pc' = "rot_entry"
               /\ tasks' = [tasks EXCEPT !.co[t].pos = "forced",
                                         !.running = t]
               /\ UNCHANGED <<client, vm>>
          ELSE LET v  == verify_connection_status(vm["ip"], client,
                                                  Pinned(vpnEnv))
                   cn == IF v.ret THEN v
                         ELSE connect(v.m, v.client, NoLocation,
                                      Pinned(vpnEnv), Pinned(vpnEnv),
                                      Pinned(vpnEnv))
               IN /\ vm' = [vm EXCEPT !["ip"] = cn.m]
                  /\ client' = cn.client
                  /\ tasks' = Moved(t, [c EXCEPT !.pos = "read"])
                  /\ UNCHANGED <<rot, pc>>
    /\ UNCHANGED <<vpnEnv, site, call, vfaults, procVars, batch, dailyPending>>

\* line 370, the read of "ImageProcessor.request_count += 1"
TaskRead(t) ==
    /\ Scheduled(t)
    /\ tasks.co[t].pos = "read"
    /\ tasks' = Moved(t, [tasks.co[t] EXCEPT !.pos = "write",
                                             !.tmp = request_count])
    /\ UNCHANGED <<vpnVars, procVars, pc, batch, dailyPending>>

\* line 370, the write of "ImageProcessor.request_count += 1"
TaskWrite(t) ==
    /\ Scheduled(t)
    /\ tasks.co[t].pos = "write"
    /\ request_count' = CountAfterRequest(tasks.co[t].tmp)
    /\ rcLast' = "increment"
    /\ tasks' = [Moved(t, [tasks.co[t] EXCEPT !.pos = "compare"])
                   EXCEPT !.counted = @ + 1]
    /\ UNCHANGED <<vpnVars, proc, sess, mr, exc, result, sfaults, pc, batch,
                   dailyPending>>

\* lines 373-375 and 384: the comparison, and the counter-based rotation
TaskCompare(t) ==
    /\ Scheduled(t)
    /\ tasks.co[t].pos = "compare"
    /\ IF RotationDue(request_count)
       THEN /\ rot' = RotFrame("ip", "task", NoLocation, FALSE,
                               DefaultMaxRetries, tasks.co[t].fr, client)
            /\ pc' = "rot_entry"
            /\ tasks' = [tasks EXCEPT !.co[t].pos = "counter",
                                      !.running = t]
       ELSE /\ tasks' = Moved(t, [tasks.co[t] EXCEPT !.pos = "session"])
            /\ UNCHANGED <<rot, pc>>
    /\ UNCHANGED <<vpnEnv, site, call, client, vfaults, vm, procVars, batch,
                   dailyPending>>

\* lines 352-360 and 376-382: rotate_ip returned to the coroutine that
\* called it
TaskRotated(t) ==
    /\ pc = "rot_ret"
    /\ rot.ret = "task"
    /\ tasks.running = t
    /\ LET c == tasks.co[t]
           forced == c.pos = "forced"
       IN /\ IF RotationSucceeded(rot.result)
             THEN /\ request_count' = CountAfterRotation(request_count)
                  /\ rcLast' = IF forced THEN "mr_forced" ELSE "mr_counter"
             ELSE UNCHANGED <<request_count, rcLast>>
          /\ tasks' =
               [Moved(t, [c EXCEPT
                     !.pos = IF c.force THEN "backoff" ELSE "session",
                     !.daily = IF forced /\ RotationSucceeded(rot.result)
                               THEN FALSE ELSE @,
                     !.force = FALSE, !.fr = FALSE])
                  EXCEPT !.counted = IF RotationSucceeded(rot.result)
                                     THEN 0 ELSE @]
    /\ rot' = NoRot
    /\ pc' = "loop"
    /\ UNCHANGED <<vpnEnv, site, call, client, vfaults, vm, proc, sess, mr,
                   exc, result, sfaults, batch, dailyPending>>

\* what a session attempt comes to: a result is returned, a usage limit is
\* detected and raised, or something else fails
SessionOutcomes == {"returned", "limit", "failed"}

\* lines 885-1300: a session attempt runs, suspended in its browser calls,
\* to its end; a failure is counted by the handler of line 1270, which
\* calls _maybe_rotate_ip(force=True, ...) if the message names a limit
TaskSession(t) ==
    /\ Scheduled(t)
    /\ tasks.co[t].pos = "session"
    /\ \E o \in SessionOutcomes :
         LET c == tasks.co[t]
             r == RetriesAfterFailure(c.retries)
         IN tasks' = Moved(t,
              CASE o = "returned" -> [c EXCEPT !.pos = "done"]
                [] o = "limit" ->
                     [c EXCEPT !.pos = "mr_entry", !.retries = r,
                               !.daily = TRUE, !.force = TRUE,
                               !.fr = r > 1]
                [] OTHER -> [c EXCEPT !.pos = "backoff", !.retries = r])
    /\ UNCHANGED <<vpnVars, procVars, pc, batch, dailyPending>>

\* lines 1294-1310: the wait of the handler is over
TaskBackoff(t) ==
    /\ Scheduled(t)
    /\ tasks.co[t].pos = "backoff"
    /\ tasks' = Moved(t, [tasks.co[t] EXCEPT !.pos =
                            IF Exhausted(tasks.co[t].retries) THEN "done"
                            ELSE "session"])
    /\ UNCHANGED <<vpnVars, procVars, pc, batch, dailyPending>>


(***************************************************************************)
(* Dewatermarker.process_images (src/core/dewatermarker.py, lines 327-439). *)
(* Its handler of lines 405-435 catches what process_image raises, and      *)
(* process_image catches every Exception itself.                            *)
(***************************************************************************)
\* the number of image paths of the batch
NumJobs == 4

\* the default of Dewatermarker's max_requests_before_rotation
\* (dewatermarker.py:18)
DwThreshold == 3

\* the largest threshold a Dewatermarker is constructed with
MaxThreshold == 4

\* the values of max_requests_before_rotation passed to Dewatermarker
Thresholds == DwThreshold .. MaxThreshold

\* max_retries of the rotation before an image (dewatermarker.py:372)
PreRotationRetries == 3

\* VPNManager._check_windscribe_installed (downloader.py:35-45)
check_windscribe_installed(env) == env # "absent"

\* i: the images taken so far; processed: the images whose path was
\* appended; pre: how the rotation check before the current image ended;
\* threshold: self.max_requests_before_rotation (dewatermarker.py:30)
NewBatch ==
    [i |-> 0, processed |-> <<>>, installed |-> FALSE, rotSince |-> 0,
     pre |-> "none", threshold |-> DwThreshold]

\* lines 343-356: the counter is reset, the client looked for and, when it
\* is there and not connected, a first rotation made
BatchStart ==
    /\ pc = "b_start"
    /\ request_count' = 0
    /\ rcLast' = "process_images"
    /\ batch' = [batch EXCEPT !.installed = check_windscribe_installed(vpnEnv)]
    /\ IF check_windscribe_installed(vpnEnv)
       THEN \E o \in Possible(vpnEnv, vfaults) :
              LET r == verify_connection_status(vm["dw"], client, o)
              IN /\ vm' = [vm EXCEPT !["dw"] = r.m]
                 /\ client' = r.client
                 /\ vfaults' = vfaults - Cost(vpnEnv, o)
                 /\ IF r.ret
                    THEN /\ pc' = "b_loop"
                         /\ rot' = rot
                    ELSE /\ pc' = "rot_entry"
                         /\ rot' = RotFrame("dw", "b_init", NoLocation, TRUE,
                                            DefaultMaxRetries, FALSE, r.client)
       ELSE /\ pc' = "b_loop"
            /\ UNCHANGED <<vm, client, vfaults, rot>>
    /\ UNCHANGED <<vpnEnv, site, call, proc, sess, mr, exc, result, sfaults, dailyPending, tasks>>

\* line 354 returned (its value is not used)
BatchInitRotated ==
    /\ pc = "rot_ret"
    /\ rot.ret = "b_init"
    /\ pc' = "b_loop"
    /\ rot' = NoRot
    /\ UNCHANGED <<vpnEnv, site, call, client, vfaults, vm, procVars, batch, dailyPending, tasks>>

\* line 370
PreRotationDue(c, T, installed) == c >= T /\ installed

\* lines 361-372: the next image; a missing file is skipped; the rotation
\* check before the image
BatchNext ==
    /\ pc = "b_loop"
    /\ IF batch.i >= NumJobs
       THEN /\ pc' = "b_done"
            /\ UNCHANGED <<batch, rot, sfaults>>
       ELSE \E o \in Outcomes("exists", {"missing"}) :
              /\ sfaults' = Spend("exists", o)
              /\ CASE o = "missing" ->
                        /\ batch' = [batch EXCEPT !.i = @ + 1]
                        /\ pc' = "b_loop"
                        /\ rot' = rot
                   [] o = "exists" /\ PreRotationDue(request_count, batch.threshold,
                                                   batch.installed) ->
                        /\ rot' = RotFrame("dw", "b_pre", NoLocation, TRUE,
                                           PreRotationRetries, FALSE, client)
                        /\ pc' = "rot_entry"
                        /\ batch' = batch
                   [] OTHER ->
                        /\ batch' = [batch EXCEPT !.pre = "skipped"]
                        /\ pc' = "b_pre_done"
                        /\ rot' = rot
    /\ UNCHANGED <<vpnEnv, site, call, client, vfaults, vm, request_count, rcLast, proc,
                   sess, mr, exc, result, dailyPending, tasks>>

\* a batch that gives the image up when the rotation before it failed
BatchPreRotatedOrGivesUp ==
    /\ pc = "rot_ret"
    /\ rot.ret = "b_pre"
    /\ IF rot.result
       THEN /\ request_count' = 0
            /\ rcLast' = "b_pre"
            /\ batch' = [batch EXCEPT !.pre = "rotated"]
            /\ pc' = "b_pre_done"
       ELSE /\ batch' = [batch EXCEPT !.pre = "failed", !.i = @ + 1]
            /\ pc' = "b_loop"
            /\ UNCHANGED <<request_count, rcLast>>
    /\ rot' = NoRot
    /\ UNCHANGED <<vpnEnv, site, call, client, vfaults, vm, proc, sess, mr, exc, result,
                   sfaults, dailyPending, tasks>>

\* lines 372-381: the rotation before the image returned
BatchPreRotated ==
    /\ pc = "rot_ret"
    /\ rot.ret = "b_pre"
    /\ IF rot.result
       THEN /\ request_count' = 0
            /\ rcLast' = "b_pre"
            /\ batch' = [batch EXCEPT !.pre = "rotated"]
       ELSE /\ batch' = [batch EXCEPT !.pre = "failed"]
            /\ UNCHANGED <<request_count, rcLast>>
    /\ pc' = "b_pre_done"
    /\ rot' = NoRot
    /\ UNCHANGED <<vpnEnv, site, call, client, vfaults, vm, proc, sess, mr, exc, result,
                   sfaults, dailyPending, tasks>>

\* lines 389-393: a new ImageProcessor and its process_image call
BatchProcess ==
    /\ pc = "b_pre_done"
    /\ proc' = NewProc
    /\ sess' = NoSess
    /\ mr' = NoMr
    /\ exc' = NoExc
    /\ result' = NoResult
    /\ pc' = "pi_start"
    /\ UNCHANGED <<vpnVars, request_count, rcLast, batch, sfaults,
                   dailyPending, tasks>>

\* a list that takes every result, None too
CollectedAlways(paths, r, n) == Append(paths, n)

\* lines 395-396: "if processed_path: processed_paths.append(processed_path)";
\* the path returned for image n is written n
Collected(paths, r, n) == IF r.kind # "none" THEN Append(paths, n) ELSE paths

\* lines 395-403: process_image returned; a path is appended, None is not
BatchCollect ==
    /\ pc = "pi_ret"
    /\ batch' = [batch EXCEPT
                   !.i = @ + 1,
                   !.processed = Collected(@, result, batch.i + 1),
                   !.rotSince = IF result.kind # "none" THEN 0 ELSE @]
    /\ pc' = "b_loop"
    /\ proc' = NewProc
    /\ sess' = NoSess
    /\ mr' = NoMr
    /\ exc' = NoExc
    /\ result' = NoResult
    /\ UNCHANGED <<vpnVars, request_count, rcLast, sfaults, dailyPending, tasks>>
(***************************************************************************)
(* A driver of one VPNManager, as src/test_processor.py's test_vpn_manager *)
(* drives it: any of the public methods, in any order, with any arguments. *)
(***************************************************************************)
\* values of max_retries the driver passes
DriverRetries == 0 .. DefaultMaxRetries

\* no call made yet, or another method called since
NoCall == [op |-> "none", oc |-> "ok", os |-> "ok", ret |-> FALSE,
           status |-> "disconnected", raised |-> FALSE]

DriverRotate ==
    /\ pc = "idle"
    /\ \E force \in BOOLEAN, fr \in BOOLEAN, maxr \in DriverRetries :
         rot' = RotFrame("dw", "driver", NoLocation, force, maxr, fr, client)
    /\ vfaults' = MaxCallFaults
    /\ pc' = "rot_entry"
    /\ call' = NoCall
    /\ UNCHANGED <<vpnEnv, site, client, vm, procVars, batch, dailyPending, tasks>>

DriverRotateReturns ==
    /\ pc = "rot_ret"
    /\ rot.ret = "driver"
    /\ pc' = "idle"
    /\ rot' = NoRot
    /\ vfaults' = 0
    /\ batch' = NewBatch
    /\ UNCHANGED <<vpnEnv, site, call, client, vm, procVars, dailyPending, tasks>>

DriverConnect ==
    /\ pc = "idle"
    /\ \E od \in Possible(vpnEnv, 1), oc \in Possible(vpnEnv, 1),
          os \in Possible(vpnEnv, 1) :
         LET r == connect(vm["dw"], client, NoLocation, od, oc, os)
         IN /\ ~vm["dw"].connected => od = Pinned(vpnEnv)
            /\ oc # "ok" => os = Pinned(vpnEnv)
            /\ vm' = [vm EXCEPT !["dw"] = r.m]
            /\ client' = r.client
            /\ call' = [op |-> "connect", oc |-> oc, os |-> os, ret |-> r.ret,
                        status |-> r.client, raised |-> r.raised]
    /\ UNCHANGED <<vpnEnv, site, vfaults, rot, pc, procVars, batch, dailyPending, tasks>>

DriverDisconnect ==
    /\ pc = "idle"
    /\ \E o \in Possible(vpnEnv, 1) :
         LET r == disconnect(vm["dw"], client, o)
         IN /\ vm' = [vm EXCEPT !["dw"] = r.m]
            /\ client' = r.client
            /\ call' = [op |-> "disconnect", oc |-> o, os |-> "ok",
                        ret |-> r.ret, status |-> r.client,
                        raised |-> r.raised]
    /\ UNCHANGED <<vpnEnv, site, vfaults, rot, pc, procVars, batch, dailyPending, tasks>>

DriverVerify ==
    /\ pc = "idle"
    /\ \E o \in Possible(vpnEnv, 1) :
         LET r == verify_connection_status(vm["dw"], client, o)
         IN /\ vm' = [vm EXCEPT !["dw"] = r.m]
            /\ client' = r.client
            /\ call' = [op |-> "verify_connection_status", oc |-> "ok",
                        os |-> o, ret |-> r.ret, status |-> r.client,
                        raised |-> r.raised]
    /\ UNCHANGED <<vpnEnv, site, vfaults, rot, pc, procVars, batch, dailyPending, tasks>>

\* the client loses its connection while nothing is running
ClientDrops ==
    /\ pc = "idle"
    /\ client = "connected"
    /\ client' = "disconnected"
    /\ call' = NoCall
    /\ UNCHANGED <<vpnEnv, site, vfaults, vm, rot, pc, procVars, batch, dailyPending, tasks>>

\* VPNManager.__init__ (downloader.py:26-33): the flag is what the status
\* query of the constructor found
NewManagers ==
    {f \in [Mgrs -> [connected : BOOLEAN, idx : {0}, attempts : {0},
                      fails : {0}]] :
        vpnEnv # "ok" => \A m \in Mgrs : ~f[m].connected}

vars == <<vpnEnv, site, call, client, vfaults, vm, pc, rot, request_count, rcLast, batch,
          proc, sess, mr, exc, result, sfaults, dailyPending, tasks>>

\* the state of the program before any batch: the class body of
\* ImageProcessor has run (downloader.py:294-295)
InitProgram ==
    /\ request_count = 0
    /\ rcLast = "class_body"
    /\ batch = NewBatch
    /\ proc = NewProc
    /\ sess = NoSess
    /\ mr = NoMr
    /\ exc = NoExc
    /\ result = NoResult
    /\ dailyPending = FALSE
    /\ rot = NoRot
    /\ call = NoCall
    /\ tasks = NoTasks

InitVPN ==
    /\ vpnEnv \in {"ok", "down", "absent"}
    /\ client \in IF vpnEnv = "ok" THEN {"connected", "disconnected"}
                  ELSE {"disconnected"}
    /\ vfaults = 0
    /\ vm \in NewManagers
    /\ vm["ip"] = [connected |-> FALSE, idx |-> 0, attempts |-> 0, fails |-> 0]
    /\ pc = "idle"
    /\ site = "ok"
    /\ sfaults = 0
    /\ InitProgram

NextVPN ==
    \/ RotEntry
    \/ RotCheck
    \/ RotPickLocation
    \/ RotLoopDisconnect
    \/ RotLoopConnect
    \/ RotFinal
    \/ DriverRotate
    \/ DriverRotateReturns
    \/ DriverConnect
    \/ DriverDisconnect
    \/ DriverVerify
    \/ ClientDrops

SpecVPN == InitVPN /\ [][NextVPN]_vars

\* a step of rotate_ip
RotStep ==
    \/ RotEntry
    \/ RotCheck
    \/ RotPickLocation
    \/ RotLoopDisconnect
    \/ RotLoopConnect
    \/ RotFinal

\* rotate_ip is synchronous code: once called it runs on, every external
\* command it starts returning
FairSpecVPN == InitVPN /\ [][NextVPN]_vars /\ WF_vars(RotStep)

(***************************************************************************)
(* A batch run: one call of Dewatermarker.process_images per process       *)
(* (src/__main__.py:141).                                                  *)
(***************************************************************************)
Init ==
    /\ vpnEnv \in {"ok", "down", "absent"}
    /\ client \in IF vpnEnv = "ok" THEN {"connected", "disconnected"}
                  ELSE {"disconnected"}
    /\ site \in {"ok", "offline"}
    /\ vfaults = MaxBatchVpnFaults
    /\ sfaults = MaxSiteFaults
    /\ vm \in NewManagers
    /\ pc = "b_start"
    /\ InitProgram

Next ==
    \/ BatchStart
    \/ BatchInitRotated
    \/ BatchNext
    \/ BatchPreRotated
    \/ BatchProcess
    \/ BatchCollect
    \/ PiVerify
    \/ PiConnect
    \/ PiPreDone
    \/ PiLoop
    \/ MrEntry
    \/ MrForcedReturns
    \/ MrCounterReturns
    \/ RotEntry
    \/ RotCheck
    \/ RotPickLocation
    \/ RotLoopDisconnect
    \/ RotLoopConnect
    \/ RotFinal
    \/ SLaunch
    \/ SContext
    \/ SHeaders
    \/ SNewPage
    \/ SGoto
    \/ SLoadText
    \/ UStandard
    \/ UAlternative
    \/ UWaitButton
    \/ UDisabledRead
    \/ UDisabledDecide
    \/ UExpect
    \/ UDownload
    \/ SWaitButton
    \/ SDisabledRead
    \/ SDisabledDecide
    \/ SDisabledRaise
    \/ SExpect
    \/ SDownload
    \/ SDownloadLimitRaise
    \/ SSave
    \/ InnerHandler
    \/ Cancelled
    \/ OuterHandler
    \/ OuterRotated
    \/ OuterCheck

Spec == Init /\ [][Next]_vars

(***************************************************************************)
(* A batch run of a Dewatermarker constructed with any of the thresholds.  *)
(***************************************************************************)
\* Dewatermarker.__init__ (dewatermarker.py:17-34) with
\* max_requests_before_rotation = T
Dewatermarker(T) == [NewBatch EXCEPT !.threshold = T]

InitConfigured ==
    /\ vpnEnv \in {"ok", "down", "absent"}
    /\ client \in IF vpnEnv = "ok" THEN {"connected", "disconnected"}
                  ELSE {"disconnected"}
    /\ site \in {"ok", "offline"}
    /\ vfaults = MaxBatchVpnFaults
    /\ sfaults = MaxSiteFaults
    /\ vm \in NewManagers
    /\ pc = "b_start"
    /\ request_count = 0
    /\ rcLast = "class_body"
    /\ batch \in {Dewatermarker(T) : T \in Thresholds}
    /\ proc = NewProc
    /\ sess = NoSess
    /\ mr = NoMr
    /\ exc = NoExc
    /\ result = NoResult
    /\ dailyPending = FALSE
    /\ rot = NoRot
    /\ call = NoCall
    /\ tasks = NoTasks

SpecConfigured == InitConfigured /\ [][Next]_vars

(***************************************************************************)
(* A batch run with a record of the connect commands that the VPN client   *)
(* receives.                                                               *)
(***************************************************************************)
InitRecorded ==
    /\ vpnEnv \in {"ok", "down", "absent"}
    /\ client \in IF vpnEnv = "ok" THEN {"connected", "disconnected"}
                  ELSE {"disconnected"}
    /\ site \in {"ok", "offline"}
    /\ vfaults = MaxBatchVpnFaults
    /\ sfaults = MaxSiteFaults
    /\ vm \in NewManagers
    /\ pc = "b_start"
    /\ request_count = 0
    /\ rcLast = "class_body"
    /\ batch = NewBatch
    /\ proc = NewProc
    /\ sess = NoSess
    /\ mr = NoMr
    /\ exc = NoExc
    /\ result = NoResult
    /\ dailyPending = FALSE
    /\ rot = NoRot
    /\ call = NoCommands
    /\ tasks = NoTasks

SpecRecorded == InitRecorded /\ [][Next]_vars

(***************************************************************************)
(* A caller of VPNManager.get_next_location, which keeps what the calls    *)
(* returned since it began to count.                                       *)
(***************************************************************************)
\* the most calls the caller counts
MaxLocationCalls == 10

\* the caller begins to count: start is current_location_index then
Counting(m) ==
    [op |-> "get_next_location", oc |-> "ok", os |-> "ok", ret |-> FALSE,
     status |-> "disconnected", raised |-> FALSE, start |-> m.idx,
     returned |-> <<>>]

\* one call of get_next_location (downloader.py:98-104)
DriverNextLocation ==
    /\ pc = "idle"
    /\ LET m == vm["dw"]
           c == IF call.op = "get_next_location" THEN call ELSE Counting(m)
       IN /\ Len(c.returned) < MaxLocationCalls
          /\ call' = [c EXCEPT !.returned = Append(@, NextLocation(m))]
          /\ vm' = [vm EXCEPT !["dw"].idx = AdvanceIndex(m)]
    /\ UNCHANGED <<vpnEnv, site, client, vfaults, rot, pc, procVars, batch,
                   dailyPending, tasks>>

\* the caller begins to count anew
DriverRecounts ==
    /\ pc = "idle"
    /\ call.op = "get_next_location"
    /\ call' = NoCall
    /\ UNCHANGED <<vpnEnv, site, client, vfaults, vm, rot, pc, procVars, batch,
                   dailyPending, tasks>>

NextLocations ==
    \/ DriverNextLocation
    \/ DriverRecounts

SpecLocations == InitVPN /\ [][NextLocations]_vars

(***************************************************************************)
(* The choice of the download control on any page.                         *)
(***************************************************************************)
InitPage ==
    /\ vpnEnv = "ok"
    /\ client = "connected"
    /\ site = "ok"
    /\ vfaults = 0
    /\ sfaults = 0
    /\ vm \in NewManagers
    /\ pc = "page_idle"
    /\ InitProgram

NextPage ==
    \/ PageLoads
    \/ PageChoose
    \/ PageLeaves

SpecPage == InitPage /\ [][NextPage]_vars

(***************************************************************************)
(* A batch run on a site that answers every call or none, with a VPN       *)
(* service that fails and recovers between the images.                     *)
(***************************************************************************)
InitBatch ==
    /\ vpnEnv \in {"ok", "down"}
    /\ client \in IF vpnEnv = "ok" THEN {"connected", "disconnected"}
                  ELSE {"disconnected"}
    /\ site \in {"ok", "offline"}
    /\ vfaults = MaxBatchVpnFaults
    /\ sfaults = 0
    /\ vm \in NewManagers
    /\ pc = "b_start"
    /\ InitProgram

\* the VPN service of the machine fails, or recovers, between two images
VpnChanges ==
    /\ pc = "b_loop"
    /\ vpnEnv \in {"ok", "down"}
    /\ vpnEnv' = IF vpnEnv = "ok" THEN "down" ELSE "ok"
    /\ client' = IF vpnEnv = "ok" THEN "disconnected" ELSE client
    /\ UNCHANGED <<site, call, vfaults, vm, rot, procVars, pc, batch, dailyPending, tasks>>

\* the steps of the batch that such a run can take
BatchStep ==
    \/ BatchStart
    \/ BatchInitRotated
    \/ BatchNext
    \/ BatchPreRotated
    \/ BatchProcess
    \/ BatchCollect
    \/ PiVerify
    \/ PiConnect
    \/ PiPreDone
    \/ PiLoop
    \/ MrEntry
    \/ MrCounterReturns
    \/ RotEntry
    \/ RotCheck
    \/ RotPickLocation
    \/ RotLoopDisconnect
    \/ RotLoopConnect
    \/ RotFinal
    \/ SLaunch
    \/ SContext
    \/ SHeaders
    \/ SNewPage
    \/ SGoto
    \/ SLoadText
    \/ UStandard
    \/ SWaitButton
    \/ SExpect
    \/ SDownload
    \/ SSave
    \/ InnerHandler
    \/ OuterHandler
    \/ OuterCheck

NextBatch == BatchStep \/ VpnChanges

\* the batch is one task of the event loop: it runs on, every external
\* command and every awaited browser call returning or raising
FairSpecBatch == InitBatch /\ [][NextBatch]_vars /\ WF_vars(BatchStep)


(***************************************************************************)
(* Two process_image coroutines scheduled on one event loop.               *)
(***************************************************************************)
\* the coroutines start with the counter that the images processed before
\* them left
InitTasks ==
    /\ vpnEnv \in {"ok", "down", "absent"}
    /\ client \in IF vpnEnv = "ok" THEN {"connected", "disconnected"}
                  ELSE {"disconnected"}
    /\ vfaults = 0
    /\ vm \in NewManagers
    /\ pc = "loop"
    /\ site = "ok"
    /\ sfaults = 0
    /\ request_count \in 0 .. max_requests_before_rotation
    /\ rcLast = IF request_count = 0 THEN "class_body" ELSE "increment"
    /\ tasks = [NoTasks EXCEPT !.counted = request_count]
    /\ batch = NewBatch
    /\ proc = NewProc
    /\ sess = NoSess
    /\ mr = NoMr
    /\ exc = NoExc
    /\ result = NoResult
    /\ dailyPending = FALSE
    /\ rot = NoRot
    /\ call = NoCall

TaskStep ==
    \E t \in Tasks :
        \/ TaskStart(t)
        \/ TaskMrEntry(t)
        \/ TaskRead(t)
        \/ TaskWrite(t)
        \/ TaskCompare(t)
        \/ TaskRotated(t)
        \/ TaskSession(t)
        \/ TaskBackoff(t)

NextTasks ==
    \/ TaskStep
    \/ RotEntry
    \/ RotCheck
    \/ RotPickLocation
    \/ RotLoopDisconnect
    \/ RotLoopConnect
    \/ RotFinal

SpecTasks == InitTasks /\ [][NextTasks]_vars
(***************************************************************************)
(* Claims.                                                                 *)
(***************************************************************************)
\* a rotate_ip call has just returned
RotReturned == pc = "rot_ret"

\* the call was rotate_ip(force=False, force_reconnect=False) on a client that
\* was connected and whose every command of the call exited with code 0
NoopCall ==
    /\ RotReturned
    /\ ~rot.force0
    /\ ~rot.force_reconnect
    /\ rot.upAtEntry
    /\ rot.clean

\* C1: rotate_ip(force=False, force_reconnect=False) on a client whose status
\* verifies as connected issues no disconnect and no connect command and
\* returns True, however many rotate_ip calls preceded it.
C1_NoopRotationIssuesNoCommands ==
    NoopCall => rot.result /\ ~rot.disc /\ rot.nLoc = 0 /\ rot.nAuto = 0

\* the budget check that process_image makes before its first session
\* (line 882) has just returned
PreCheckDone == pc = "mr_ret" /\ mr.ret = "pi_pre"

\* C2 as stated: when the pre-session budget check finishes, request_count
\* does not exceed the rotation threshold, in every run.
C2_BudgetNeverExceedsThreshold ==
    PreCheckDone => request_count <= max_requests_before_rotation

\* C2: when the pre-session budget check finishes having needed no rotation
\* or having rotated successfully, request_count is below the rotation
\* threshold; only a check whose rotate_ip call failed leaves it at or above.
C2_BudgetBelowThresholdUnlessRotationFailed ==
    PreCheckDone =>
        IF mr.result THEN request_count < max_requests_before_rotation
        ELSE request_count >= max_requests_before_rotation

\* the check rotated, and the counter was reset
C2_CheckRotatedAndReset ==
    PreCheckDone /\ mr.result /\ rcLast = "mr_counter" /\ request_count = 0

\* C3: after a session attempt that found a daily-limit phrase (on page
\* load, or in the page text with a disabled download control), the next
\* rotate_ip call is made with force_reconnect=True.
C3_DailyLimitForcesReconnect ==
    (pc = "rot_entry" /\ dailyPending) => rot.force_reconnect

\* the download control was found disabled and the page text read then
\* contains "daily limit"
DisabledDailyLimit == sess.button = "disabled" /\ sess.disText = "daily limit"

\* C4: when the download control is disabled and the page text contains
\* "daily limit", the attempt issues no download click, forced or scripted,
\* returns no path and fails with the usage-limit exception.
C4_DisabledDailyLimitAbandonsWithoutClick ==
    DisabledDailyLimit =>
        /\ ~sess.forced
        /\ ~sess.scripted
        /\ result.kind \in {"pending", "none"}
        /\ pc = "outer_exc" => exc.type = "UsageLimit"

\* C5: one process_image call starts at most max_retries (4) session
\* attempts; every attempt but the first follows a counted failure, and the
\* call returns None only after max_retries failed attempts.
C5_AtMostFourAttempts ==
    /\ proc.started <= max_retries
    /\ pc = "s_launch" => proc.retries = proc.started - 1
    /\ (pc = "pi_ret" /\ result.kind = "none") =>
           proc.retries = max_retries /\ proc.started = max_retries

\* four attempts were made and all of them failed
C5_FourAttemptsAllFailed ==
    pc = "pi_ret" /\ result.kind = "none" /\ proc.started = max_retries

\* the VPN and the site are available and nothing has failed so far: every
\* session so far completed
NoFaults ==
    /\ vpnEnv = "ok"
    /\ site = "ok"
    /\ vfaults = MaxBatchVpnFaults
    /\ sfaults = MaxSiteFaults

\* the first session of job n (counted from 1) is about to start
JobStarts(n) == pc = "s_launch" /\ batch.i = n - 1 /\ proc.started = 1

ExtMatches(ext, format) ==
    ext = format \/ (ext = "jpg" /\ format = "jpeg")

\* C7: every path process_image returns names a non-empty file whose
\* extension matches the image format detected from its content.
C7_ReturnedPathNamesNonEmptyMatchingFile ==
    (pc = "pi_ret" /\ result.kind # "none") =>
        ~result.empty /\ ExtMatches(result.ext, result.format)

\* a step that assigns 0 to request_count
WritesZero ==
    /\ request_count' = 0
    /\ rcLast' # rcLast \/ request_count' # request_count

\* C8 as stated: request_count is set to 0 only immediately after a
\* rotate_ip call that returned True.
C8_ZeroOnlyAfterRotation ==
    [][WritesZero => (pc = "rot_ret" /\ rot.result)]_vars

\* C8: request_count is set to 0 at the start of process_images, and
\* otherwise only immediately after a rotate_ip call that returned True.
C8_ZeroOnlyAtBatchStartOrAfterRotation ==
    [][WritesZero => (pc = "b_start" \/ (pc = "rot_ret" /\ rot.result))]_vars

\* the counter was reset after a rotation
C8_ResetAfterRotation ==
    request_count = 0 /\ rcLast \in {"mr_forced", "mr_counter", "b_pre"}

\* C9: when the outcome of a session attempt is handled by the retry
\* handler or returned, the browser and its context are closed.
C9_ResourcesReleasedBeforeOutcome ==
    pc \in {"outer_exc", "pi_ret"} =>
        sess.browser # "open" /\ sess.context # "open"

\* C10: no session attempt is started once an attempt of the same
\* process_image call has saved the output file, and no input is
\* processed twice.
C10_NoAttemptAfterSavedOutput ==
    /\ pc = "s_launch" => ~proc.saved
    /\ \A a, b \in 1 .. Len(batch.processed) :
           a # b => batch.processed[a] # batch.processed[b]

\* the requests the call in progress has spent on the service: its failed
\* attempts that had loaded the page and met no limit, and the attempt
\* that returned a path
RequestsSpent == proc.counted + (IF result.kind # "none" THEN 1 ELSE 0)

\* the first process_image call of the batch has returned and the counter,
\* 0 when the call began, was only incremented since
FirstJobReturnsUnrotated == pc = "pi_ret" /\ batch.i = 0 /\ rcLast = "increment"

\* C11: request_count is incremented by exactly 1 for each completed session
\* attempt that reached the service and succeeded or failed with a non-limit
\* kind: a job that needed k such attempts has added k to the counter.
C11_CounterCountsSessionAttempts ==
    FirstJobReturnsUnrotated => request_count = RequestsSpent

\* a rotate_ip call is in progress or has just returned
RotPcs ==
    {"rot_entry", "rot_check", "rot_loc", "rot_loop", "rot_conn", "rot_final",
     "rot_ret"}

\* the counter is at or above the threshold and the rotate_ip call whose
\* success resets it has returned True
ResetAtThreshold ==
    /\ pc = "rot_ret"
    /\ rot.ret \in {"mr_forced", "mr_counter", "b_pre"}
    /\ rot.result
    /\ request_count >= max_requests_before_rotation

\* C12: whenever the counter has reached the threshold and is then reset to
\* 0, the rotate_ip call in between issued a disconnect and, after it, a
\* connect command to the VPN client.
C12_ResetFollowsActualRotation ==
    ResetAtThreshold => rot.disc /\ rot.nLoc + rot.nAuto > 0

\* C13: rotate_ip runs the restart cycle of the VPN client if and only if
\* force_reconnect is set or the consecutive failed rotations have reached
\* max_consecutive_failures (3); calls that all returned True never restart
\* the client unless force_reconnect is passed.
C13_RestartOnlyOnRequestOrFailures ==
    pc = "rot_check" =>
        (rot.restarted <=>
            (rot.force_reconnect
             \/ vm[rot.mgr].fails >= max_consecutive_failures))

\* C14: connect returns True exactly when the connect command exited with
\* code 0 and the status query after it exited with code 0 and reported the
\* client connected; a failed or raising command makes it return False.
C14_ConnectTrueOnlyWhenVerified ==
    call.op = "connect" =>
        (call.ret <=>
            (call.oc = "ok" /\ call.os = "ok" /\ call.status = "connected"))

\* a connect call that returned True
C14_ConnectReturnedTrue == call.op = "connect" /\ call.ret

\* what a returned rotate_ip call has done
RotationBounded ==
    /\ rot.result \in BOOLEAN
    /\ rot.nLoc <= rot.max_retries + 1
    /\ rot.nAuto <= 1
    /\ rot.nAuto = 1 => rot.nLoc = rot.max_retries + 1
    /\ ~rot.result => rot.nAuto = 1

\* C15: every rotate_ip call returns, with a boolean; it makes at most
\* max_retries + 1 connect attempts to a location and, only after that
\* many, exactly one with no location, and it returns False only when that
\* last attempt failed too.
C15_RotationTerminatesWithinRetries ==
    /\ [](pc = "rot_ret" => RotationBounded)
    /\ (pc = "rot_entry" ~> pc = "rot_ret")

\* a call with the default max_retries that failed after every attempt
C15_EveryAttemptFailed ==
    /\ pc = "rot_ret"
    /\ ~rot.result
    /\ rot.max_retries = DefaultMaxRetries
    /\ rot.nLoc = DefaultMaxRetries + 1
    /\ rot.nAuto = 1

\* the batch found that image n (counted from 0) exists and has not called
\* process_image for it yet
AwaitsProcessing(n) ==
    /\ batch.i = n
    /\ \/ pc = "b_pre_done"
       \/ pc \in RotPcs /\ rot.ret = "b_pre"

\* C16: for every input path that exists process_image is eventually
\* called, whether the rotation before it succeeds, fails or is not due.
C16_EveryExistingImageIsProcessed ==
    \A n \in 0 .. NumJobs - 1 :
        AwaitsProcessing(n) ~> (pc = "pi_start" /\ batch.i = n)

\* process_image is called after the rotation before the image failed
C16_ProcessedAfterFailedRotation == pc = "pi_start" /\ batch.pre = "failed"

\* an upload method is running
UploadPcs == {"u_std", "u_alt"}

\* a download control is waited for, examined or clicked, or its download
\* handled
DownloadPcs ==
    {"u_waitbtn", "u_distext", "u_disdecide", "u_expect", "u_dl", "s_waitbtn",
     "s_distext", "s_disdecide", "s_expect", "s_dl", "s_save"}

\* C17: when the page text read right after navigation holds a limit phrase
\* the attempt is aborted at once: it runs no upload method and looks for
\* no download control.
C17_LimitOnLoadSkipsUpload ==
    sess.loadLimit =>
        /\ pc \notin UploadPcs \cup DownloadPcs
        /\ ~sess.alt
        /\ ~sess.verified
        /\ sess.button = "none"

\* C18: within an attempt the steps run in session order: an upload method
\* runs only after the page was loaded and checked, and a download control
\* is waited for or clicked only after an upload method verified the upload,
\* the alternative methods included.
C18_DownloadOnlyAfterVerifiedUpload ==
    /\ pc \in UploadPcs \cup DownloadPcs => sess.reached
    /\ pc \in DownloadPcs => sess.verified
    /\ sess.button # "none" => sess.verified

\* C19: when a session attempt is cancelled while its browser is open, the
\* context and the browser are closed before the cancellation leaves
\* process_image.
C19_CancellationReleasesBrowser ==
    pc = "cancelled" => sess.browser # "open" /\ sess.context # "open"

\* C20: when the VPN client is not installed, no rotate_ip call and no
\* connect call is made on either VPNManager during the batch.
C20_NoVpnCallsWithoutClient ==
    vpnEnv = "absent" =>
        /\ pc \notin RotPcs
        /\ pc # "pi_conn"
        /\ proc.conn = 0

\* the retry handler has an exception that names no usage limit
NonLimitFailure == pc = "outer_exc" /\ exc.type \notin LimitKinds

\* C21: an attempt that failed with a timeout or a network error is retried
\* without any VPN rotation; the retry handler starts a rotation only for a
\* usage-limit failure.
C21_RotationOnlyAfterUsageLimit ==
    [][NonLimitFailure => pc' # "mr_entry"]_vars

\* a rotation that the request counter asked for begins
CounterRotationBegins ==
    pc = "rot_entry" /\ rot.ret \in {"mr_counter", "b_pre"}

\* C22: for a Dewatermarker constructed with max_requests_before_rotation =
\* T, no counter-triggered rotation is attempted while fewer than T requests
\* have been counted since the last reset, for every T.
C22_NoCounterRotationBelowThreshold ==
    CounterRotationBegins => request_count >= batch.threshold

\* the burst-limit phrases of the specification
BurstPhrases == {"try again later", "too many requests"}

\* how the specification classifies a text: a daily phrase wins
SignalKind(text) ==
    IF text \in DailyPhrases THEN "daily"
    ELSE IF text \in BurstPhrases THEN "burst"
    ELSE "other"

\* the retry handler has the exception of a limit signal found on page load
LoadSignal(kind) ==
    pc = "outer_exc" /\ exc.type = "DailyLimit" /\ SignalKind(exc.phrase) = kind

\* the disabled-button branch calls _maybe_rotate_ip for a limit signal
DisabledSignal(kind) ==
    pc = "mr_entry" /\ mr.ret = "dis_limit" /\ SignalKind(sess.disText) = kind

\* C23: a limit signal that matches only burst phrases leads to a rotation
\* with force_reconnect=False and one that matches a daily phrase to a
\* rotation with force_reconnect=True, for signals found on page load and
\* for signals found with a disabled download control.
C23_SignalKindDrivesReconnect ==
    /\ [](DisabledSignal("burst") => ~mr.fr)
    /\ [](DisabledSignal("daily") => mr.fr)
    /\ [][LoadSignal("burst") => ~mr'.fr]_vars
    /\ [][LoadSignal("daily") => mr'.fr]_vars

\* the download of the attempt reported a failure and the page held no
\* candidate result image
FailedWithoutImage == sess.image = "none"

\* C24: when the captured download reports a failure and the page contains
\* no candidate result image, the attempt ends as a download failure and
\* returns no output path.
C24_FailedDownloadReturnsNoPath ==
    FailedWithoutImage => result.kind \in {"pending", "none"}

\* the page holds a download button that is not labelled "PRO" and one that
\* is
PlainAndPro(page) ==
    /\ \E i \in 1 .. Len(page) : page[i].tag = "button" /\ ~page[i].pro
    /\ \E i \in 1 .. Len(page) : page[i].tag = "button" /\ page[i].pro

\* the k-th selector is the first of the list that resolves to a visible
\* element
FirstVisibleSelector(page, k) ==
    /\ WaitForSelector(page, download_button_selectors[k])
    /\ \A j \in 1 .. k - 1 : ~WaitForSelector(page, download_button_selectors[j])

\* C25: on a page with a plain and a PRO download button, the control
\* process_image chooses is the element of the first selector, in list
\* order, that resolves to a visible element, and it is not labelled "PRO".
C25_ChosenControlIsFirstVisibleAndNotPro ==
    (pc = "page_chosen" /\ PlainAndPro(sess.page) /\ sess.download_button # 0) =>
        /\ \E k \in 1 .. Len(download_button_selectors) :
             /\ FirstVisibleSelector(sess.page, k)
             /\ sess.download_button = First(sess.page, download_button_selectors[k])
        /\ ~sess.page[sess.download_button].pro

\* the attempt is about to register its download expectation
BeforeExpectDownload == pc \in {"s_expect", "u_expect"}

\* C26: in every download attempt the download expectation is registered
\* before any click on the download control is dispatched, forced or by
\* script, also when the control is disabled and no limit text was found.
C26_NoClickBeforeExpectDownload ==
    BeforeExpectDownload => ~sess.forced /\ ~sess.scripted

\* a command of the leaf method the driver called failed: the disconnect
\* command of disconnect, the status command of verify_connection_status,
\* the connect command of connect or the status command after it
CommandFailed == call.op # "none" /\ (call.oc # "ok" \/ call.os # "ok")

\* no method is left by an exception and a leaf method whose command failed
\* has returned False
FailuresCaught ==
    /\ ~call.raised
    /\ call.ret \in BOOLEAN
    /\ CommandFailed => ~call.ret
    /\ pc = "rot_ret" => rot.result \in BOOLEAN

\* C27: no failure of an external VPN command (non-zero exit, missing
\* binary, timeout, any raised exception) leaves connect, disconnect,
\* verify_connection_status or rotate_ip as an exception; each of them
\* returns False instead, rotate_ip too when a command it ran has failed.
C27_CommandFailuresReturnFalse ==
    /\ FailuresCaught
    /\ (pc = "rot_ret" /\ ~rot.clean) => ~rot.result

\* C27, amended: no failure of an external VPN command leaves the four
\* methods as an exception; a leaf method whose command failed returns
\* False, and rotate_ip, which tries again after a failed command, returns
\* False when every command fails.
C27_FailuresCaughtAndRetried ==
    /\ FailuresCaught
    /\ (pc = "rot_ret" /\ vpnEnv # "ok") => ~rot.result

\* a disconnect whose command raised has returned False
C27_DisconnectRaisedInside ==
    call.op = "disconnect" /\ call.oc = "exc" /\ ~call.ret /\ ~call.raised

\* the entry of LOCATIONS at position i, counted from 0 and modulo its
\* length
LocationAt(i) == LOCATIONS[(i % Len(LOCATIONS)) + 1]

\* the calls counted so far returned the entries from position start on
ReturnedInOrder ==
    \A k \in 1 .. Len(call.returned) :
        call.returned[k] = LocationAt(call.start + k - 1)

\* any Len(LOCATIONS) successive calls among those counted returned every
\* location exactly once
WindowsCoverAll ==
    \A f \in 1 .. Len(call.returned) - Len(LOCATIONS) + 1 :
        /\ {call.returned[k] : k \in f .. f + Len(LOCATIONS) - 1}
             = {LOCATIONS[i] : i \in 1 .. Len(LOCATIONS)}
        /\ \A j, k \in f .. f + Len(LOCATIONS) - 1 :
             call.returned[j] = call.returned[k] => j = k

\* C28: get_next_location walks the 10-entry location list round-robin:
\* current_location_index is always in 0..9, k successive calls return the
\* entries at positions i, i+1, ..., i+k-1 modulo 10, and 10 successive
\* calls return every location exactly once.
C28_LocationsRoundRobin ==
    /\ Len(LOCATIONS) = 10
    /\ \A m \in Mgrs : vm[m].idx \in 0 .. 9
    /\ call.op = "get_next_location" => ReturnedInOrder /\ WindowsCoverAll

\* ten calls counted from an index in the middle of the list
C28_TenCallsWrapped ==
    /\ call.op = "get_next_location"
    /\ call.start = 4
    /\ Len(call.returned) = Len(LOCATIONS)

\* C29: between calls rotation_attempts is always in 0..2: whatever the
\* rotate_ip calls made, their arguments and their successes and failures,
\* the value left behind is below max_consecutive_failures (3).
C29_RotationAttemptsBelowThreshold ==
    /\ max_consecutive_failures = 3
    /\ \A m \in Mgrs : vm[m].attempts \in 0 .. max_consecutive_failures - 1

\* a call that failed has left the counter at 2
C29_TwoAttemptsLeftBehind ==
    pc = "rot_ret" /\ ~rot.result /\ vm[rot.mgr].attempts = 2

\* C30: whenever rotate_ip returns True the manager's connected flag is
\* True at the moment of return, on the no-op path, after a connect to a
\* location and after the final connect with no location.
C30_TrueReturnMeansConnectedFlag ==
    (pc = "rot_ret" /\ rot.result) => vm[rot.mgr].connected

\* a call that returned True from its final connect with no location
C30_ReturnedTrueFromFinalConnect ==
    pc = "rot_ret" /\ rot.result /\ rot.nAuto = 1 /\ vm[rot.mgr].connected

(***************************************************************************)
(* C31.  After verify_connection_status returns, the manager's connected   *)
(* flag equals the value it returned, whatever the status command did:     *)
(* connected output, other output, non-zero exit code, raised exception.   *)
(***************************************************************************)
VerifyReturned == call.op = "verify_connection_status"

C31_FlagEqualsReturnedStatus ==
    VerifyReturned => (vm["dw"].connected <=> call.ret)

(***************************************************************************)
(* C32.  process_image lets no failure of a step escape: whatever the VPN  *)
(* pre-check, the browser launch, the navigation, the upload, the download *)
(* or a close call raises is on its way to one of the two handlers, the    *)
(* call makes at most max_retries attempts, and it returns a saved path or *)
(* None with no exception left in flight.                                  *)
(***************************************************************************)
StepFailures == FailTypes \cup LimitKinds \cup {"NoButton", "NameError"}

C32_FailuresNeverEscape ==
    /\ exc.type \in StepFailures => pc \in {"inner_exc", "outer_exc"}
    /\ exc.type \in StepFailures \cup {"none", "CancelledError"}
    /\ proc.started <= max_retries /\ proc.retries <= max_retries
    /\ pc = "pi_ret" =>
          /\ exc = NoExc
          /\ result.kind \in {"saved", "screenshot", "none"}

\* a close call of the inner handler raised in the last attempt, and the
\* call returned None
C32_CloseFailedInLastAttempt ==
    /\ pc = "pi_ret"
    /\ result.kind = "none"
    /\ proc.started = max_retries
    /\ sess.browser = "open"
    /\ sess.context = "closed"

(***************************************************************************)
(* C33.  Within one job, rotate_ip is never invoked while the browser or   *)
(* the browser context of the job's current attempt is still open: every   *)
(* rotation that process_image triggers after an attempt began (limit with *)
(* disabled control, limit-related download failure, retry handler) finds  *)
(* both closed.                                                            *)
(***************************************************************************)
RotationFromAttempt ==
    pc = "rot_entry" /\ rot.ret = "mr_forced" /\ mr.ret # "pi_pre"

C33_NoRotationWhileBrowserOpen ==
    RotationFromAttempt => sess.browser # "open" /\ sess.context # "open"

(***************************************************************************)
(* C34.  A single usage-limit detection in a session attempt causes        *)
(* exactly one rotate_ip invocation before the next attempt of the same    *)
(* job starts.                                                             *)
(***************************************************************************)
NextAttemptAfterLimit == pc = "pi_loop" /\ sess.limit

C34_OneRotationPerLimitDetection == NextAttemptAfterLimit => sess.rots = 1

(***************************************************************************)
(* C35.  ImageProcessor.request_count is a non-negative integer in every   *)
(* reachable state; every step that changes it adds exactly 1 or sets it   *)
(* to 0, so it is never decremented, and the return of a failed rotation   *)
(* leaves it as it was.                                                    *)
(***************************************************************************)
FailedRotationReturns == pc = "rot_ret" /\ ~rot.result

C35_CounterStepsByOneOrResets ==
    /\ [](request_count \in Nat)
    /\ [][\/ request_count' = request_count
          \/ request_count' = request_count + 1
          \/ request_count' = 0]_vars
    /\ [][FailedRotationReturns => request_count' = request_count]_vars

\* the counter-based rotation of the fourth job failed and left the counter
\* above the threshold
C35_CounterKeptByFailedRotation ==
    /\ pc = "mr_ret"
    /\ ~mr.result
    /\ rcLast = "increment"
    /\ request_count = max_requests_before_rotation + 1

(***************************************************************************)
(* C36.  When two process_image coroutines run concurrently on one event   *)
(* loop, no update of the shared request counter is lost: nothing          *)
(* suspends _maybe_rotate_ip between reading, incrementing, comparing and  *)
(* resetting request_count, so the counter is the number of increments     *)
(* made since it was last reset, the value a coroutine read is still the   *)
(* counter when it writes, and the value it wrote is still the counter     *)
(* when it compares and when its rotation returns.                         *)
(***************************************************************************)
C36_NoCounterUpdateLost ==
    /\ request_count = tasks.counted
    /\ \A t \in Tasks :
         LET c == tasks.co[t]
         IN /\ c.pos = "write" => c.tmp = request_count
            /\ c.pos \in {"compare", "counter"} => request_count = c.tmp + 1
            /\ ~Suspends(c.pos) => tasks.running = t

\* both coroutines are suspended in their sessions at once, each having
\* incremented the counter, and the rotation that the second one started at
\* the threshold failed
C36_BothIncrementedConcurrently ==
    /\ \A t \in Tasks : tasks.co[t].pos = "session" /\ tasks.co[t].retries = 0
    /\ request_count = max_requests_before_rotation
    /\ rcLast = "increment"

(***************************************************************************)
(* C37.  Across one batch run the VPN location selector is a single        *)
(* round-robin: two consecutive location-specific connect commands issued  *)
(* to the VPN client, whichever component issued them (the batch pre-check *)
(* or the per-image processor), never name the same location.              *)
(***************************************************************************)
C37_ConsecutiveConnectsDiffer == call.op = "commands" => ~call.repeated

(***************************************************************************)
(* C38.  Dewatermarker.process_images returns exactly the non-None results *)
(* of process_image for the input paths that exist, in input order: a path *)
(* that does not exist is skipped without creating a session, a job whose  *)
(* result is None contributes nothing to the list, every other result is   *)
(* appended when its job returns, and nothing else changes the list.       *)
(***************************************************************************)
\* the step that skips a missing path (dewatermarker.py:362-364)
SkipsMissingPath == pc = "b_loop" /\ pc' = "b_loop" /\ batch'.i = batch.i + 1

\* the step that receives the result of process_image
ReceivesResult == pc = "pi_ret" /\ pc' = "b_loop"

\* the list holds images taken so far, in input order
InInputOrder(paths) ==
    /\ \A k \in 1 .. Len(paths) : paths[k] \in 1 .. batch.i
    /\ \A j, k \in 1 .. Len(paths) : j < k => paths[j] < paths[k]

C38_ReturnsNonNoneResultsInOrder ==
    /\ [](InInputOrder(batch.processed))
    /\ [][SkipsMissingPath =>
             /\ batch'.processed = batch.processed
             /\ proc' = proc /\ sess' = sess /\ result' = result]_vars
    /\ [][ReceivesResult =>
             /\ batch'.i = batch.i + 1
             /\ batch'.processed =
                  IF result.kind = "none" THEN batch.processed
                  ELSE Append(batch.processed, batch.i + 1)]_vars
    /\ [][batch'.processed # batch.processed => ReceivesResult]_vars

\* the batch returns the results of its second and fourth image: the first
\* and the third were missing or came to None
C38_ReturnedSecondAndFourth == pc = "b_done" /\ batch.processed = <<2, 4>>

====
